---- MODULE Spec2Model ----
(***************************************************************************)
(* Cost-governed workflow state machine of NexGen-Studio: the General      *)
(* ReAct session loop, the Creative pipeline, the cost ledger and the      *)
(* cost monitor.  Money is counted in whole cents.                         *)
(***************************************************************************)
EXTENDS Integers, Sequences, FiniteSets, TLC

None == "None"

(***************************************************************************)
(* Bounds of the model.                                                    *)
(***************************************************************************)
MaxIterationsChoice == 2      \* largest max_iterations a session is created with
MaxSessionBudget == 2         \* largest session budget_limit_usd, in cents
MaxToolCost == 1              \* largest cost of one tool call, in cents
MemoryWindow == 2             \* memory_window the orchestrator is built with
CompressionThreshold == 4     \* compression_threshold the orchestrator is built with
LedgerLimit == 20             \* the explicit limit_usd given to ensure_envelope, in cents
MaxLedgerSpent == 21          \* largest spend recorded for one entity in the ledger runs
MaxTelemetry == 3             \* most cost_threshold events kept in the ledger runs
MonitorLimit == 20            \* the explicit budget_limit given to the monitor, in cents
MaxSnapshots == 2             \* most snapshots recorded per entity in the monitor runs
MaxAnomalies == 3             \* check_for_anomalies runs while fewer anomalies are stored
MaxDispatched == 3            \* ... and while fewer alerts have been dispatched
TickSeconds == 120            \* seconds between two readings of the clock
MaxCharges == 8               \* a creative handler runs while fewer stage charges were made
MaxWrapperCalls == 1          \* most calls of the single-stage wrappers
MaxClock == 3                 \* the clock is read up to this tick in the timed monitor runs
TimedSnapshots == 1           \* most snapshots recorded per entity in the timed monitor runs
MaxPanels == 3                \* most scenes a script is split into
MaxThreadRecords == 4         \* most record calls made by the threads together
MaxThrottleCalls == 5         \* most calls made to the throttle manager
LongWait == 3                 \* ticks that pass while a slow stage is worked on
MaxStageClock == 6            \* a slow stage is started while the clock is below this tick

(***************************************************************************)
(* Cost ledger (CostTracker) and cost monitor (CostMonitor).               *)
(* Time is read in ticks of TickSeconds; a handler runs within one tick.   *)
(***************************************************************************)
VARIABLES
    cost_tracker,     \* CostTracker._envelopes: entity -> envelope
    telemetry,        \* cost_threshold events given to emit_event, in order
    now,              \* the wall clock, in ticks
    cost_monitor,     \* the CostMonitor instance
    last_pause,       \* what the last should_pause_entity call returned, and for whom
    produced_thresholds  \* budget_threshold anomalies returned so far, per (entity, percentage)

cvars == <<cost_tracker, telemetry, now, cost_monitor, last_pause,
           produced_thresholds>>

Entities == {"p1", "s1"}
MonitorEntities == {"p1"}          \* the entity the monitor runs are about

LedgerAmounts == {1, 9, 10}       \* amounts recorded in the ledger runs, in cents
MonitorCosts == {10, 19, 20}      \* cumulative costs recorded in the monitor runs

default_project_limit_usd == 5000
cost_alert_percentages == <<95, 100>>
alert_cooldown_seconds == 120

NoEnvelope == [limit_usd |-> 0, spent_usd |-> 0, present |-> FALSE]

\* CostTracker.ensure_envelope
ensure_envelope(tracker, entity_id, limit_usd) ==
    IF tracker[entity_id].present THEN tracker
    ELSE [tracker EXCEPT ![entity_id] =
            [limit_usd |-> IF limit_usd # 0 THEN limit_usd ELSE default_project_limit_usd,
             spent_usd |-> 0, present |-> TRUE]]

\* The first configured percentage that pct has reached, 0 when none has.
FirstThresholdReached(spent, limit) ==
    LET hit == {i \in DOMAIN cost_alert_percentages :
                    limit # 0 /\ spent * 100 >= cost_alert_percentages[i] * limit}
    IN IF hit = {} THEN 0
       ELSE cost_alert_percentages[CHOOSE i \in hit : \A j \in hit : i <= j]

\* CostTracker.record: the tracker after the call and the events it emitted.
tracker_record(tracker, entity_id, amount) ==
    LET t1 == ensure_envelope(tracker, entity_id, 0)
        t2 == [t1 EXCEPT ![entity_id].spent_usd = @ + amount]
        th == FirstThresholdReached(t2[entity_id].spent_usd, t2[entity_id].limit_usd)
    IN [tracker |-> t2,
        events |-> IF th = 0 THEN <<>>
                   ELSE <<[name |-> "cost_threshold", entity_id |-> entity_id,
                           threshold |-> th]>>]

\* ---- CostMonitor ------------------------------------------------------

\* 24 hours and 10 minutes, in ticks
DayTicks == (24 * 3600) \div TickSeconds
RateWindowTicks == (10 * 60) \div TickSeconds

\* budget_limit arguments and entries: -1 stands for None.
NoLimit == -1

CostMonitor ==
    [snapshots |-> [e \in Entities |-> <<>>],
     anomalies |-> <<>>,
     paused_entities |-> {},
     budget_limits |-> [e \in Entities |-> NoLimit],
     threshold_alerts |-> [e \in Entities |-> {}],
     alert_handlers |-> 0,
     last_alert_at |-> [k \in Entities \X {"rate_spike", "budget_exceeded",
                                            "projected_overrun", "budget_threshold"} |-> -1],
     dispatched |-> <<>>]

\* CostMonitor.record_snapshot
record_snapshot(m, entity_id, cumulative_cost, budget_limit, t) ==
    LET snap == [timestamp |-> t, cumulative_cost |-> cumulative_cost]
        kept == SelectSeq(Append(m.snapshots[entity_id], snap),
                          LAMBDA x : x.timestamp > t - DayTicks)
    IN [m EXCEPT !.budget_limits[entity_id] = IF budget_limit # NoLimit THEN budget_limit ELSE @,
                 !.snapshots[entity_id] = kept]

\* Rates are fractions <<numerator, denominator>> with a positive denominator.
ZeroRate == <<0, 1>>
RateLess(a, b) == a[1] * b[2] < b[1] * a[2]
RateLeq(a, b) == a[1] * b[2] <= b[1] * a[2]

\* CostMonitor.calculate_cost_rate
calculate_cost_rate(m, entity_id, window_ticks, t) ==
    LET all == m.snapshots[entity_id]
        recent == SelectSeq(all, LAMBDA x : x.timestamp > t - window_ticks)
    IN IF Len(all) < 2 \/ Len(recent) < 2 THEN ZeroRate
       ELSE LET oldest == recent[1]
                newest == recent[Len(recent)]
                time_delta == newest.timestamp - oldest.timestamp
                cost_delta == newest.cumulative_cost - oldest.cumulative_cost
            IN IF time_delta = 0 THEN ZeroRate ELSE <<cost_delta, time_delta>>

\* CostMonitor.calculate_historical_rate (percentile 0.95)
calculate_historical_rate(m, entity_id) ==
    LET snaps == m.snapshots[entity_id]
        idx == {i \in 2..Len(snaps) : snaps[i].timestamp - snaps[i-1].timestamp > 0}
        rate(i) == <<snaps[i].cumulative_cost - snaps[i-1].cumulative_cost,
                     snaps[i].timestamp - snaps[i-1].timestamp>>
        n == Cardinality(idx)
        index == (n * 95) \div 100
        k == IF index <= n - 1 THEN index ELSE n - 1
    IN IF Len(snaps) < 10 \/ n = 0 THEN ZeroRate
       ELSE rate(CHOOSE i \in idx :
                   /\ Cardinality({j \in idx : RateLess(rate(j), rate(i))}) <= k
                   /\ Cardinality({j \in idx : RateLeq(rate(j), rate(i))}) > k)

\* CostMonitor._determine_severity; the budget percentage is cost / limit.
_determine_severity(alert_type, cost, limit, multiplier_ge_3) ==
    CASE alert_type = "budget_exceeded" -> "critical"
      [] alert_type = "projected_overrun" ->
            IF limit # 0 /\ cost # 0 /\ cost * 100 < 120 * limit THEN "warning" ELSE "critical"
      [] alert_type = "rate_spike" -> IF multiplier_ge_3 THEN "critical" ELSE "warning"
      [] alert_type = "budget_threshold" ->
            IF limit # 0 /\ cost * 100 >= 100 * limit THEN "critical" ELSE "warning"
      [] OTHER -> "info"

CostAnomaly(entity_id, alert_type, t, severity, threshold) ==
    [entity_id |-> entity_id, alert_type |-> alert_type, timestamp |-> t,
     severity |-> severity, threshold |-> threshold]

\* `budget_limit` as check_for_anomalies and should_pause_entity resolve it.
resolve_budget_limit(m, entity_id, budget_limit_arg) ==
    IF budget_limit_arg # NoLimit THEN budget_limit_arg
    ELSE IF m.budget_limits[entity_id] # NoLimit THEN m.budget_limits[entity_id]
    ELSE default_project_limit_usd

\* the mutation of in_cooldown: no alert is ever held back
in_cooldown_never(elapsed_seconds) == FALSE

\* `(timestamp - last).total_seconds() < self.alert_cooldown_seconds`
in_cooldown(elapsed_seconds) == elapsed_seconds < alert_cooldown_seconds

\* CostMonitor._should_emit_alert and _dispatch_alert, folded over the
\* anomalies of one check in order.
RECURSIVE DispatchAll(_, _)
DispatchAll(m, found) ==
    IF found = <<>> THEN m
    ELSE LET a == Head(found)
             key == <<a.entity_id, a.alert_type>>
             last == m.last_alert_at[key]
             suppressed == last # -1 /\ in_cooldown((a.timestamp - last) * TickSeconds)
             m1 == IF suppressed THEN m
                   ELSE [m EXCEPT !.last_alert_at[key] = a.timestamp,
                                  !.dispatched = IF m.alert_handlers > 0
                                                 THEN Append(@, a) ELSE @]
         IN DispatchAll(m1, Tail(found))

\* CostMonitor.check_for_anomalies.  completion is in tenths; with_thresholds
\* tells the monitor that has the budget_threshold alerts and the alert
\* cooldown from the one that has neither.
\* the mutation of triggered_thresholds: the set is forgotten between checks
triggered_thresholds_forgotten(m, entity_id) == {}

\* triggered_thresholds = self.threshold_alerts.setdefault(entity_id, set())
triggered_thresholds(m, entity_id) == m.threshold_alerts[entity_id]

\* CostMonitor.check_for_anomalies: the monitor after the call and the list returned.
check_for_anomalies(m, entity_id, budget_limit_arg, completion, threshold_multiplier, with_thresholds, t) ==
    LET snaps == m.snapshots[entity_id] IN
    IF snaps = <<>> THEN [m |-> m, anomalies |-> <<>>]
    ELSE
    LET budget_limit == resolve_budget_limit(m, entity_id, budget_limit_arg)
        current_cost == snaps[Len(snaps)].cumulative_cost
        current_rate == calculate_cost_rate(m, entity_id, RateWindowTicks, t)
        historical_rate == calculate_historical_rate(m, entity_id)
        already == triggered_thresholds(m, entity_id)
        newly == {i \in DOMAIN cost_alert_percentages :
                    /\ with_thresholds
                    /\ budget_limit # 0
                    /\ cost_alert_percentages[i] \notin already
                    /\ current_cost * 100 >= cost_alert_percentages[i] * budget_limit}
        thresholdAnoms ==
            [i \in 1..Cardinality(newly) |->
                LET th == cost_alert_percentages[
                            CHOOSE j \in newly : Cardinality({x \in newly : x < j}) = i - 1]
                IN CostAnomaly(entity_id, "budget_threshold", t,
                               _determine_severity("budget_threshold", current_cost,
                                                   budget_limit, FALSE), th)]
        exceeded ==
            IF current_cost >= budget_limit
            THEN <<CostAnomaly(entity_id, "budget_exceeded", t, "critical", 0)>> ELSE <<>>
        spike ==
            IF historical_rate[1] > 0
               /\ current_rate[1] * historical_rate[2]
                     > historical_rate[1] * threshold_multiplier * current_rate[2]
            THEN <<CostAnomaly(entity_id, "rate_spike", t,
                     _determine_severity("rate_spike", current_cost, budget_limit,
                        current_rate[1] * historical_rate[2]
                            >= 3 * historical_rate[1] * current_rate[2]), 0)>>
            ELSE <<>>
        overrun ==
            IF completion > 0 /\ current_cost # 0
               /\ current_cost * 100 > 11 * budget_limit * completion
            THEN <<CostAnomaly(entity_id, "projected_overrun", t,
                     _determine_severity("projected_overrun", current_cost, budget_limit,
                                         FALSE), 0)>>
            ELSE <<>>
        found == thresholdAnoms \o exceeded \o spike \o overrun
        m1 == [m EXCEPT !.threshold_alerts[entity_id] =
                            @ \cup {cost_alert_percentages[i] : i \in newly},
                        !.anomalies = @ \o found]
    IN [m |-> IF with_thresholds THEN DispatchAll(m1, found) ELSE m1, anomalies |-> found]

\* the mutation of pause_for_budget: spending exactly the budget does not pause
pause_for_budget_strict(current_cost, budget_limit) == current_cost > budget_limit

\* the budget test of should_pause_entity: `if current_cost >= budget_limit`
pause_for_budget(current_cost, budget_limit) == current_cost >= budget_limit

\* the mutation of is_recent: an anomaly counts however old it is
is_recent_forever(age_seconds) == TRUE

\* the age test of should_pause_entity: `.total_seconds() < 300  # 5 minutes`
is_recent(age_seconds) == age_seconds < 300

\* CostMonitor.should_pause_entity
should_pause_entity(m, entity_id, budget_limit_arg, auto_pause_enabled, t) ==
    LET snaps == m.snapshots[entity_id]
        budget_limit == resolve_budget_limit(m, entity_id, budget_limit_arg)
        recent_anomalies == {i \in DOMAIN m.anomalies :
                                /\ m.anomalies[i].entity_id = entity_id
                                /\ is_recent((t - m.anomalies[i].timestamp) * TickSeconds)}
    IN IF ~auto_pause_enabled THEN [m |-> m, paused |-> FALSE, reason |-> None]
       ELSE IF entity_id \in m.paused_entities THEN [m |-> m, paused |-> FALSE, reason |-> None]
       ELSE IF snaps = <<>> THEN [m |-> m, paused |-> FALSE, reason |-> None]
       ELSE IF pause_for_budget(snaps[Len(snaps)].cumulative_cost, budget_limit) THEN
            [m |-> [m EXCEPT !.paused_entities = @ \cup {entity_id}],
             paused |-> TRUE, reason |-> "paused_budget"]
       ELSE IF Cardinality(recent_anomalies) >= 2 THEN
            [m |-> [m EXCEPT !.paused_entities = @ \cup {entity_id}],
             paused |-> TRUE, reason |-> "paused_anomaly"]
       ELSE [m |-> m, paused |-> FALSE, reason |-> None]

\* CostMonitor.resume_entity
resume_entity(m, entity_id) == [m EXCEPT !.paused_entities = @ \ {entity_id}]

\* CostMonitor.cleanup_old_data
cleanup_old_data(m, days, t) ==
    [m EXCEPT !.snapshots = [e \in Entities |->
                    SelectSeq(m.snapshots[e], LAMBDA x : x.timestamp > t - days * DayTicks)],
              !.anomalies = SelectSeq(@, LAMBDA a : a.timestamp > t - days * DayTicks)]

\* CostMonitor.reset
monitor_reset(m) ==
    [m EXCEPT !.snapshots = [e \in Entities |-> <<>>],
              !.anomalies = <<>>,
              !.paused_entities = {},
              !.budget_limits = [e \in Entities |-> NoLimit]]

NoPause == [entity_id |-> None, paused |-> FALSE, reason |-> None, was_paused |-> FALSE,
            cost |-> 0, limit |-> 0, auto |-> FALSE, recent |-> 0]

CInit ==
    /\ cost_tracker = [e \in Entities |-> NoEnvelope]
    /\ telemetry = <<>>
    /\ now = 0
    /\ cost_monitor = CostMonitor
    /\ last_pause = NoPause
    /\ produced_thresholds = [k \in MonitorEntities \X {95, 100} |-> 0]

\* ---- the ledger driven through its own interface -----------------------

CostTracker_ensure_envelope ==
    \E e \in Entities, limit_usd \in {0, LedgerLimit} :
        /\ ~cost_tracker[e].present
        /\ cost_tracker' = ensure_envelope(cost_tracker, e, limit_usd)
        /\ UNCHANGED telemetry

CostTracker_record ==
    \E e \in Entities, amount \in LedgerAmounts :
        LET r == tracker_record(cost_tracker, e, amount) IN
        /\ cost_tracker[e].spent_usd + amount <= MaxLedgerSpent
        /\ Len(telemetry) < MaxTelemetry
        /\ cost_tracker' = r.tracker
        /\ telemetry' = telemetry \o r.events

LNext ==
    /\ CostTracker_ensure_envelope \/ CostTracker_record
    /\ UNCHANGED <<now, cost_monitor, last_pause, produced_thresholds>>

\* ---- the monitor driven through its own interface ----------------------

CostMonitor_register_alert_handler ==
    /\ cost_monitor.alert_handlers = 0
    /\ cost_monitor' = [cost_monitor EXCEPT !.alert_handlers = 1]
    /\ UNCHANGED <<now, last_pause, produced_thresholds>>

record_snapshot_called(costs, limits, most) ==
    \E e \in MonitorEntities, cumulative_cost \in costs, budget_limit \in limits :
        /\ Len(cost_monitor.snapshots[e]) < most
        /\ \A i \in DOMAIN cost_monitor.snapshots[e] :
              cost_monitor.snapshots[e][i].cumulative_cost <= cumulative_cost
        /\ cost_monitor' = record_snapshot(cost_monitor, e, cumulative_cost, budget_limit, now)
        /\ UNCHANGED <<now, last_pause, produced_thresholds>>

CostMonitor_record_snapshot == record_snapshot_called(MonitorCosts, {NoLimit, MonitorLimit}, MaxSnapshots)

check_for_anomalies_called(limits, completions) ==
    \E e \in MonitorEntities, budget_limit \in limits, completion \in completions :
        LET r == check_for_anomalies(cost_monitor, e, budget_limit, completion, 2, TRUE, now) IN
        /\ Len(cost_monitor.anomalies) < MaxAnomalies
        /\ Len(cost_monitor.dispatched) < MaxDispatched
        /\ cost_monitor' = r.m
        /\ produced_thresholds' =
              [k \in DOMAIN produced_thresholds |->
                 produced_thresholds[k]
                 + Cardinality({i \in DOMAIN r.anomalies :
                                   /\ r.anomalies[i].alert_type = "budget_threshold"
                                   /\ r.anomalies[i].entity_id = k[1]
                                   /\ r.anomalies[i].threshold = k[2]})]
        /\ UNCHANGED <<now, last_pause>>

\* how many stored anomalies of the entity are younger than five minutes
RecentAnomalies(m, e, t) ==
    Cardinality({i \in DOMAIN m.anomalies :
                    /\ m.anomalies[i].entity_id = e
                    /\ (t - m.anomalies[i].timestamp) * TickSeconds < 5 * 60})

CostMonitor_check_for_anomalies ==
    check_for_anomalies_called({NoLimit, MonitorLimit}, {0, 5, 10})

\* should_pause_entity is called; with `timed` the number of recent anomalies
\* the monitor held at the call is kept with the answer
should_pause_entity_called(limits, autos, timed) ==
    \E e \in MonitorEntities, budget_limit \in limits, auto_pause_enabled \in autos :
        LET r == should_pause_entity(cost_monitor, e, budget_limit, auto_pause_enabled, now)
            snaps == cost_monitor.snapshots[e]
        IN
        /\ cost_monitor' = r.m
        /\ last_pause' = [entity_id |-> e, paused |-> r.paused, reason |-> r.reason,
                          was_paused |-> e \in cost_monitor.paused_entities,
                          cost |-> IF snaps = <<>> THEN -1
                                   ELSE snaps[Len(snaps)].cumulative_cost,
                          limit |-> resolve_budget_limit(cost_monitor, e, budget_limit),
                          auto |-> auto_pause_enabled,
                          recent |-> IF ~timed THEN 0
                                     ELSE RecentAnomalies(cost_monitor, e, now)]
        /\ UNCHANGED <<now, produced_thresholds>>

CostMonitor_should_pause_entity == should_pause_entity_called({NoLimit, MonitorLimit}, BOOLEAN, FALSE)

CostMonitor_resume_entity ==
    \E e \in MonitorEntities :
        /\ e \in cost_monitor.paused_entities
        /\ cost_monitor' = resume_entity(cost_monitor, e)
        /\ UNCHANGED <<now, last_pause, produced_thresholds>>

CostMonitor_cleanup_old_data ==
    \E days \in {0, 7} :
        /\ cost_monitor' = cleanup_old_data(cost_monitor, days, now)
        /\ UNCHANGED <<now, last_pause, produced_thresholds>>

CostMonitor_reset ==
    /\ cost_monitor' = monitor_reset(cost_monitor)
    /\ UNCHANGED <<now, last_pause, produced_thresholds>>

MNext ==
    /\ \/ CostMonitor_register_alert_handler
       \/ CostMonitor_record_snapshot
       \/ CostMonitor_check_for_anomalies
       \/ CostMonitor_should_pause_entity
       \/ CostMonitor_resume_entity
       \/ CostMonitor_cleanup_old_data
       \/ CostMonitor_reset
    /\ UNCHANGED <<cost_tracker, telemetry>>

\* ---- the monitor driven through its own interface over time ------------

TimedCosts == {10, 20}        \* cumulative costs recorded in the timed runs

\* datetime.now(timezone.utc) reads one tick later
Tick ==
    /\ now < MaxClock
    /\ now' = now + 1
    /\ UNCHANGED <<cost_monitor, last_pause, produced_thresholds>>

Timed_record_snapshot == record_snapshot_called(TimedCosts, {MonitorLimit}, TimedSnapshots)

Timed_check_for_anomalies == check_for_anomalies_called({NoLimit}, {3})

Timed_should_pause_entity == should_pause_entity_called({NoLimit}, {TRUE}, TRUE)

TNext ==
    /\ \/ CostMonitor_register_alert_handler
       \/ Timed_record_snapshot
       \/ Timed_check_for_anomalies
       \/ Timed_should_pause_entity
       \/ CostMonitor_resume_entity
       \/ Tick
    /\ UNCHANGED <<cost_tracker, telemetry>>

(***************************************************************************)
(* General mode: GeneralSession, SessionRecordingToolRuntime, react_loop.  *)
(***************************************************************************)
VARIABLES
    session,          \* the GeneralSession held by the repository
    gpc,              \* position of run_iteration: "idle", "loop", "finish"
    remaining_steps,  \* iterations of react_loop's for-loop still to run
    history,          \* observations react_loop appended to its history
    loop_result,      \* how react_loop ended: returned / raised
    raised_in_tool,   \* GuardrailTriggered reasons raised by the wrapper in this run
    last_call,        \* what the last run_iteration call gave its caller
    call_log          \* what the last run_iteration call was given and what it called

gvars == <<session, gpc, remaining_steps, history, loop_result, raised_in_tool, last_call,
           call_log>>

GeneralSessionState == {"active", "completed", "failed", "paused"}

\* Exception classes that `except Exception` catches.  GuardrailTriggered and
\* ToolExecutionError derive from RuntimeError.
ExceptionClasses ==
    {"GuardrailTriggered", "ToolExecutionError", "UnboundLocalError", "ValueError", "RuntimeError"}

NoExc == [type |-> None, reason |-> None, message |-> None]

GuardrailTriggered(reason, detail) ==
    [type |-> "GuardrailTriggered", reason |-> reason, message |-> detail]

GuardrailMessages == {"Reached max iterations", "Budget limit hit", "Session is not active"}

mark_state(s, st) == [s EXCEPT !.state = st]

GeneralSession(max_iterations, budget_limit_usd, auto_pause_enabled) ==
    [state |-> "active", goal |-> "goal", max_iterations |-> max_iterations, iteration |-> 0,
     budget_limit_usd |-> budget_limit_usd, spent_usd |-> 0,
     auto_pause_enabled |-> auto_pause_enabled, pause_reason |-> None, summary |-> None,
     messages |-> <<>>, tool_calls |-> <<>>]

\* The repository before create_session: no session is stored.
NoSession == [GeneralSession(0, 0, FALSE) EXCEPT !.state = "absent"]

NoResult == [kind |-> None, exc |-> NoExc, value |-> None]

\* react_loop returned `value` / react_loop raised `exc`
Returned(value) == [kind |-> "returned", exc |-> NoExc, value |-> value]
Raised(exc) == [kind |-> "raised", exc |-> exc, value |-> None]

\* what the loop outcome decides about the session
Outcome(s) == [state |-> s.state, summary |-> s.summary, pause_reason |-> s.pause_reason]

\* No call of run_iteration was made yet.  start_spent is spent_usd when the
\* underlying runtime was last invoked (-1: not invoked), invoked counts the
\* invocations of the underlying runtime since the session was created.
NoCall ==
    [entry |-> [GeneralSession(0, 0, FALSE) EXCEPT !.state = "absent"],
     llm_calls |-> 0, tool_calls |-> 0, start_spent |-> -1, invoked |-> 0,
     determined |-> [state |-> None, summary |-> None, pause_reason |-> None],
     store_failed |-> FALSE, summarizer_failed |-> FALSE, upsert_failed |-> FALSE]

Max(a, b) == IF a >= b THEN a ELSE b

\* _can_continue: the early guard; stamps the session when it answers False.
_can_continue(s) ==
    IF ~s.auto_pause_enabled THEN [ok |-> TRUE, s |-> s]
    ELSE IF s.iteration >= s.max_iterations THEN
        [ok |-> FALSE,
         s |-> mark_state([s EXCEPT !.pause_reason = "Reached max iterations",
                                    !.messages = Append(@, "Reached max iterations")], "paused")]
    ELSE IF s.spent_usd >= s.budget_limit_usd THEN
        [ok |-> FALSE,
         s |-> mark_state([s EXCEPT !.pause_reason = "Budget limit hit",
                                    !.messages = Append(@, "Budget limit hit")], "paused")]
    ELSE [ok |-> TRUE, s |-> s]

\* the mutation of budget_hit: spending exactly the budget is let through
budget_hit_strict(s) == s.spent_usd > s.budget_limit_usd

\* `if self._session.spent_usd >= self._session.budget_limit_usd`
budget_hit(s) == s.spent_usd >= s.budget_limit_usd

\* SessionRecordingToolRuntime._ensure_budget_and_iterations
_ensure_budget_and_iterations(s) ==
    IF s.state # "active" THEN
        [s |-> s, exc |-> GuardrailTriggered("session_not_active", "Session is not active")]
    ELSE IF ~s.auto_pause_enabled THEN [s |-> s, exc |-> NoExc]
    ELSE IF s.iteration >= s.max_iterations THEN
        [s |-> [mark_state([s EXCEPT !.pause_reason = "Reached max iterations"], "paused")
                    EXCEPT !.messages = Append(@, "Reached max iterations")],
         exc |-> GuardrailTriggered("max_iterations", "Reached max iterations")]
    ELSE IF budget_hit(s) THEN
        [s |-> [mark_state([s EXCEPT !.pause_reason = "Budget limit hit"], "paused")
                    EXCEPT !.messages = Append(@, "Budget limit hit")],
         exc |-> GuardrailTriggered("budget_exceeded", "Budget limit hit")]
    ELSE [s |-> s, exc |-> NoExc]

\* What the underlying ToolRuntime.execute does with a request for a known tool.
ToolOutcomes ==
    [raises : {FALSE}, cost_usd : 0..MaxToolCost] \cup [raises : {TRUE}, cost_usd : {0}]

\* the mutation of ToolCallRecord: the step is read before the increment
ToolCallRecord_before_increment(s, cost, raised) ==
    [step |-> s.iteration - 1, cost_usd |-> cost, error |-> raised]

\* ToolCallRecord(step=self._session.iteration, ..., cost_usd=cost); `error`
\* tells the record whose output is {"error": ...}
ToolCallRecord(s, cost, raised) ==
    [step |-> s.iteration, cost_usd |-> cost, error |-> raised]

\* SessionRecordingToolRuntime.execute: returns the session as left by the
\* call, the exception the call ends with (NoExc when it returns) and whether
\* the spend was recorded (the ledger is then told the `cost`).
execute(s, outcome) ==
    LET pre == _ensure_budget_and_iterations(s) IN
    IF pre.exc # NoExc THEN [s |-> pre.s, exc |-> pre.exc, ran |-> FALSE, cost |-> 0]
    ELSE
        LET cost == IF outcome.raises THEN 0 ELSE outcome.cost_usd
            s1 == [pre.s EXCEPT !.spent_usd = @ + cost, !.iteration = @ + 1]
            s2 == [s1 EXCEPT
                     !.tool_calls = Append(@, ToolCallRecord(s1, cost, outcome.raises)),
                     !.messages = Append(@, "Tool")]
            post == _ensure_budget_and_iterations(s2)
        IN  IF post.exc # NoExc
            THEN [s |-> post.s, exc |-> post.exc, ran |-> TRUE, cost |-> cost]
            ELSE IF outcome.raises THEN
                \* `return result` with `result` never bound
                [s |-> post.s,
                 exc |-> [type |-> "UnboundLocalError", reason |-> None, message |-> "result"],
                 ran |-> TRUE, cost |-> cost]
            ELSE [s |-> post.s, exc |-> NoExc, ran |-> TRUE, cost |-> cost]

\* react_loop, the handlers around tool_runtime.execute.  Each answers either
\* an observation for the history or the exception that leaves the handler.
Observation(prefix, detail) == [raise |-> NoExc, prefix |-> prefix, detail |-> detail]
Raise(exc) == [raise |-> exc, prefix |-> None, detail |-> None]

\* except GuardrailTriggered: raise / except Exception as e: observation
InnerExcept(exc) ==
    IF exc.type = "GuardrailTriggered" THEN Raise(exc)
    ELSE IF exc.type \in ExceptionClasses THEN Observation("Tool execution failed", exc.message)
    ELSE Raise(exc)

\* the enclosing `except Exception as e` of the parse-and-execute block
OuterExcept(exc) ==
    IF exc.type \in ExceptionClasses
    THEN Observation("Failed to parse or execute action", exc.message)
    ELSE Raise(exc)

\* the mutation of ToolCallHandling: a failed tool call ends the loop
ToolCallHandling_unhandled(exc) ==
    IF exc = NoExc THEN Observation("Observation", "output") ELSE Raise(exc)

\* The observation or exception one tool call leaves react_loop with.
ToolCallHandling(exc) ==
    IF exc = NoExc THEN Observation("Observation", "output")
    ELSE LET inner == InnerExcept(exc) IN
         IF inner.raise = NoExc THEN inner ELSE OuterExcept(inner.raise)

\* What provider.complete answers in one step of the loop.
Responses == {"final_answer", "action", "action_unknown_tool", "action_unparseable",
              "plain_text", "llm_error"}

GInit ==
    /\ session = NoSession
    /\ gpc = "idle"
    /\ remaining_steps = 0
    /\ history = <<>>
    /\ loop_result = NoResult
    /\ raised_in_tool = {}
    /\ last_call = None
    /\ call_log = NoCall

\* GeneralModeOrchestrator.create_session
create_session ==
    /\ session = NoSession
    /\ \E mi \in 0..MaxIterationsChoice, b \in 0..MaxSessionBudget, ap \in BOOLEAN :
         session' = [GeneralSession(mi, b, ap) EXCEPT !.messages = <<"Goal registered">>]
    /\ UNCHANGED <<gpc, remaining_steps, history, loop_result, raised_in_tool, last_call,
                   call_log>>

\* the mutation of not_active: only a failed session is turned away
not_active_only_failed(s) == s.state = "failed"

\* `if session.state != GeneralSessionState.ACTIVE`
not_active(s) == s.state # "active"

\* the mutation of early_guard: the early check lets every session through
early_guard_skipped(s) == [ok |-> TRUE, s |-> s]

\* `if not self._can_continue(session)`
early_guard(s) == _can_continue(s)

\* run_iteration up to the call of react_loop
run_iteration_begin ==
    /\ gpc = "idle"
    /\ session # NoSession
    /\ call_log' = [NoCall EXCEPT !.entry = session, !.invoked = call_log.invoked]
    /\ \E prompt_text \in {None, "prompt"} :
         IF not_active(session) THEN
             /\ last_call' = "ValueError"
             /\ UNCHANGED <<session, gpc, remaining_steps, history, loop_result, raised_in_tool>>
         ELSE IF ~early_guard(session).ok THEN
             /\ session' = early_guard(session).s
             /\ last_call' = "returned"
             /\ UNCHANGED <<gpc, remaining_steps, history, loop_result, raised_in_tool>>
         ELSE
             /\ session' = IF prompt_text # None
                           THEN [session EXCEPT !.goal = prompt_text,
                                                !.messages = Append(@, "User")]
                           ELSE session
             /\ remaining_steps' = Max(session.max_iterations - session.iteration, 1)
             /\ gpc' = "loop"
             /\ history' = <<>>
             /\ loop_result' = NoResult
             /\ raised_in_tool' = {}
             /\ last_call' = "running"

\* One pass of react_loop's for-loop: a completion, then at most one tool call.
react_loop_step ==
    /\ gpc = "loop"
    /\ \E response \in Responses, outcome \in ToolOutcomes :
         LET call == execute(session, outcome)
             handled == ToolCallHandling(call.exc)
             obs == CASE response = "action" -> handled
                      [] response = "action_unknown_tool" ->
                            Observation("Observation", "Error: Tool not found")
                      [] response = "action_unparseable" ->
                            OuterExcept([type |-> "ValueError", reason |-> None,
                                         message |-> "Could not parse Action or Action Input"])
                      [] OTHER -> Raise(NoExc)
             invoked == response = "action" /\ call.ran
         IN
         /\ (response # "action") => (outcome = [raises |-> FALSE, cost_usd |-> 0])
         /\ session' = IF response = "action" THEN call.s ELSE session
         /\ call_log' = [call_log EXCEPT
                            !.llm_calls = @ + 1,
                            !.tool_calls = IF invoked THEN @ + 1 ELSE @,
                            !.invoked = IF invoked THEN @ + 1 ELSE @,
                            !.start_spent = IF invoked THEN session.spent_usd ELSE @]
         /\ IF invoked
            THEN LET r == tracker_record(cost_tracker, "s1", call.cost) IN
                 /\ cost_tracker' = r.tracker
                 /\ telemetry' = telemetry \o r.events
            ELSE UNCHANGED <<cost_tracker, telemetry>>
         /\ raised_in_tool' =
                IF response = "action" /\ call.exc.type = "GuardrailTriggered"
                THEN raised_in_tool \cup {call.exc.reason} ELSE raised_in_tool
         /\ CASE response = "llm_error" ->
                  /\ loop_result' = Raised([type |-> "RuntimeError", reason |-> None,
                                            message |-> "provider failure"])
                  /\ gpc' = "finish"
                  /\ UNCHANGED <<history, remaining_steps>>
              [] response = "final_answer" ->
                  /\ loop_result' = Returned("the text after Final Answer:")
                  /\ gpc' = "finish"
                  /\ UNCHANGED <<history, remaining_steps>>
              [] response = "plain_text" ->
                  /\ loop_result' = Returned("the response")
                  /\ gpc' = "finish"
                  /\ UNCHANGED <<history, remaining_steps>>
              [] OTHER ->
                  IF obs.raise # NoExc THEN
                      /\ loop_result' = Raised(obs.raise)
                      /\ gpc' = "finish"
                      /\ UNCHANGED <<history, remaining_steps>>
                  ELSE
                      /\ history' = Append(history, [prefix |-> obs.prefix, detail |-> obs.detail])
                      /\ remaining_steps' = remaining_steps - 1
                      /\ IF remaining_steps - 1 = 0
                         THEN /\ loop_result' =
                                    Returned("I could not answer the question within the step limit.")
                              /\ gpc' = "finish"
                         ELSE UNCHANGED <<loop_result, gpc>>
    /\ UNCHANGED last_call

\* the mutation of on_final_answer: the answer is not kept
on_final_answer_dropped(s, final_answer) ==
    mark_state([s EXCEPT !.messages = Append(@, "Final Answer")], "completed")

\* run_iteration, the body of the try after react_loop returned
on_final_answer(s, final_answer) ==
    mark_state([s EXCEPT !.summary = final_answer, !.messages = Append(@, "Final Answer")],
               "completed")

\* run_iteration, `except GuardrailTriggered as exc`
on_guardrail(s, exc) == mark_state([s EXCEPT !.pause_reason = exc.reason], "paused")

\* run_iteration, `except Exception as e`
on_error(s) == mark_state([s EXCEPT !.messages = Append(@, "Error")], "failed")

\* the mutation of _maybe_store_memory: a failing store fails the session
_maybe_store_memory_failing(s, store_fails) ==
    [s |-> IF store_fails THEN on_error(s) ELSE s, exc |-> NoExc]

\* _maybe_store_memory: a failing store_conversation_memory is caught inside
_maybe_store_memory(s, store_fails) == [s |-> s, exc |-> NoExc]

\* _maybe_compress_history: a failing summarizer is caught inside and leaves
\* the transcript as it is
_maybe_compress_history(s, summarizer_fails) ==
    IF Len(s.messages) <= Max(CompressionThreshold, Max(MemoryWindow, 1) + 1)
    THEN [s |-> s, exc |-> NoExc]
    ELSE IF summarizer_fails THEN [s |-> s, exc |-> NoExc]
    ELSE LET w == Max(MemoryWindow, 1)
             n == Len(s.messages)
         IN [s |-> [s EXCEPT !.messages = <<"[summary]">> \o SubSeq(s.messages, n - w + 1, n)],
             exc |-> NoExc]

\* the `try ... except Exception as e: return session` around memory store,
\* compression and upsert: what the caller of run_iteration gets
persist_except(exc) ==
    IF exc = NoExc \/ exc.type \in ExceptionClasses THEN "returned" ELSE "raised"

\* run_iteration after react_loop has ended: the three outcomes, then
\* memory store, history compression and upsert.  The repository holds the
\* very object the call worked on.
run_iteration_end ==
    /\ gpc = "finish"
    /\ \E store_fails \in BOOLEAN, summarizer_fails \in BOOLEAN, upsert_fails \in BOOLEAN :
         LET s1 == IF loop_result.kind = "returned"
                   THEN on_final_answer(session, loop_result.value)
                   ELSE IF loop_result.exc.type = "GuardrailTriggered"
                   THEN on_guardrail(session, loop_result.exc)
                   ELSE on_error(session)
             stored == _maybe_store_memory(s1, store_fails)
             compressed == IF stored.exc # NoExc THEN stored
                           ELSE _maybe_compress_history(stored.s, summarizer_fails)
             exc == IF compressed.exc # NoExc THEN compressed.exc
                    ELSE IF upsert_fails
                    THEN [type |-> "RuntimeError", reason |-> None, message |-> "upsert"]
                    ELSE NoExc
         IN /\ session' = compressed.s
            /\ last_call' = persist_except(exc)
            /\ call_log' = [call_log EXCEPT !.determined = Outcome(s1),
                                            !.store_failed = store_fails,
                                            !.summarizer_failed = summarizer_fails,
                                            !.upsert_failed = upsert_fails]
    /\ gpc' = "idle"
    /\ UNCHANGED <<remaining_steps, history, loop_result, raised_in_tool>>

GNext ==
    /\ \/ create_session /\ UNCHANGED <<cost_tracker, telemetry>>
       \/ run_iteration_begin /\ UNCHANGED <<cost_tracker, telemetry>>
       \/ react_loop_step
       \/ run_iteration_end /\ UNCHANGED <<cost_tracker, telemetry>>
    /\ UNCHANGED <<now, cost_monitor, last_pause, produced_thresholds>>


(***************************************************************************)
(* Creative mode: CreativeProject, the stage pipeline of                   *)
(* CreativeOrchestrator (both source trees) and the pause and resume       *)
(* endpoints.  The in-memory repository hands out the stored object, so a  *)
(* handler's writes are visible as soon as they are made.                  *)
(***************************************************************************)
VARIABLES
    calls,            \* the advance calls in flight: where each is, and what it charged
    project,          \* the CreativeProject held by the repository
    last_op,          \* the handler that ran last, what it did, and what a resume restored
    pause_log,        \* the pause in force: who paused, in which stage, from which state
    resume_watch,     \* the stage whose guardrail pause was resumed, until the next advance
    wrapper_calls     \* calls of the public single-stage wrappers so far

pvars == <<project, last_op, pause_log, resume_watch, wrapper_calls>>
ovars == <<calls>>

ProjectId == "p1"

CreativeProjectState ==
    {"brief_pending", "script_pending", "script_review", "storyboard_pending",
     "storyboard_ready", "render_pending", "preview_pending", "preview_ready",
     "validation_pending", "distribution_pending", "completed", "paused", "failed"}

\* the numbers of panels a storyboard run can produce
PanelCounts == {0, 2}

\* budget_limit_usd (in cents) and auto_pause_enabled of the create requests
ProjectRequests == {<<2, TRUE>>, <<5, TRUE>>, <<30, TRUE>>, <<5000, TRUE>>, <<7, FALSE>>}

\* amount charged by each stage, in cents
StageCost ==
    [brief |-> 2, script |-> 5, storyboard |-> 8, shots |-> 250, render |-> 50,
     preview |-> 10, validation |-> 5, distribution |-> 5]

\* CreativeProject as repository.create builds it
CreativeProject(budget_limit_usd, auto_pause_enabled) ==
    [state |-> "brief_pending", pre_pause_state |-> None, pause_reason |-> None,
     paused_at |-> -1, cost_usd |-> 0, budget_limit_usd |-> budget_limit_usd,
     auto_pause_enabled |-> auto_pause_enabled,
     summary |-> None, script |-> None, storyboard |-> 0, shots |-> 0,
     render_manifest |-> None, preview_record |-> None, validation_record |-> None,
     distribution_log |-> 0, error_message |-> None]

\* the fields CreativeProject declares, of those the handlers assign
ProjectFields == DOMAIN CreativeProject(0, FALSE)

NoProject == [CreativeProject(0, FALSE) EXCEPT !.state = "absent"]

\* the objects a stage works on: the project, the ledger, the monitor, and
\* the telemetry events emitted on the way
Ctx(p, tracker, m) == [p |-> p, tracker |-> tracker, m |-> m, ev |-> <<>>]

\* _estimate_completion, in tenths
_estimate_completion(p) ==
    LET stages == <<"brief_pending", "script_pending", "script_review",
                    "storyboard_pending", "storyboard_ready", "render_pending",
                    "preview_pending", "preview_ready", "validation_pending",
                    "distribution_pending", "completed">>
        state == IF p.state = "paused" /\ p.pre_pause_state # None
                 THEN p.pre_pause_state ELSE p.state
    IN IF \E i \in DOMAIN stages : stages[i] = state
       THEN (CHOOSE i \in DOMAIN stages : stages[i] = state) - 1
       ELSE 10

\* the mutation of stamp_pause: the state is saved after it was overwritten
stamp_pause_after_mark(p, reason, t) ==
    [p EXCEPT !.state = "paused", !.pre_pause_state = "paused",
              !.pause_reason = reason, !.paused_at = t]

\* the `if paused:` block of _record_cost_guardrail
stamp_pause(p, reason, t) ==
    [p EXCEPT !.pre_pause_state = p.state, !.pause_reason = reason,
              !.paused_at = t, !.state = "paused"]

\* the end of _record_cost_guardrail: the answer `sp` of should_pause_entity
\* decides whether the project is stamped as paused
guardrail_outcome(c, p1, tr, sp, t) ==
    [c |-> [p |-> IF sp.paused THEN stamp_pause(p1, sp.reason, t) ELSE p1,
            tracker |-> tr.tracker, m |-> sp.m, ev |-> c.ev \o tr.events],
     paused |-> sp.paused, at_guard |-> p1.state]

\* the mutation of add_cost: the amount replaces what was spent
add_cost_overwriting(p, amount) == [p EXCEPT !.cost_usd = amount]

\* `project.cost_usd += amount`
add_cost(p, amount) == [p EXCEPT !.cost_usd = @ + amount]

\* _record_cost_guardrail up to its return statement: the objects after the
\* call, whether the monitor paused the project, and the state the project
\* was in when the monitor was asked.
guardrail(c, amount, with_thresholds, t) ==
    LET p1 == add_cost(c.p, amount)
        m1 == record_snapshot(c.m, ProjectId, p1.cost_usd, p1.budget_limit_usd, t)
        ch == check_for_anomalies(m1, ProjectId, p1.budget_limit_usd,
                                  _estimate_completion(p1), 2, with_thresholds, t)
    IN guardrail_outcome(c, p1, tracker_record(c.tracker, ProjectId, amount),
                         should_pause_entity(ch.m, ProjectId, p1.budget_limit_usd,
                                             p1.auto_pause_enabled, t), t)

\* what a stage hands back: the objects, the value returned (`paused` when
\* returns_paused, `not paused` otherwise), whether the guardrail paused, the
\* state at the guardrail, and the exception raised
StageResult(g, returns_paused) ==
    [c |-> g.c, ret |-> (g.paused = returns_paused), paused |-> g.paused,
     at_guard |-> g.at_guard, raised |-> None]

StageRaised(c, exc) ==
    [c |-> c, ret |-> FALSE, paused |-> FALSE, at_guard |-> None, raised |-> exc]

\* nexgen_studio: _record_cost_guardrail returns `paused`
nexgen_record_cost_guardrail(c, amount) ==
    StageResult(guardrail(c, amount, FALSE, now), TRUE)

\* lewis_ai_system: _record_cost_guardrail returns `not paused`
lewis_record_cost_guardrail(c, amount) ==
    StageResult(guardrail(c, amount, TRUE, now), FALSE)

Variants == {"nexgen", "lewis"}

_record_cost_guardrail(v, c, amount) ==
    IF v = "lewis" THEN lewis_record_cost_guardrail(c, amount)
    ELSE nexgen_record_cost_guardrail(c, amount)

\* ---- the stages; `fail` is the stage's agent or provider call raising ----

\* the mutation of _expand_brief: the state is left for the caller to advance
_expand_brief_keeps_state(v, c, fail) ==
    IF fail THEN StageRaised(c, "Exception")
    ELSE _record_cost_guardrail(v, [c EXCEPT !.p.summary = "summary"], StageCost.brief)

_expand_brief(v, c, fail) ==
    IF fail THEN StageRaised(c, "Exception")
    ELSE _record_cost_guardrail(v,
            [c EXCEPT !.p = mark_state([c.p EXCEPT !.summary = "summary"], "script_pending")],
            StageCost.brief)

nexgen_generate_script(c, fail) ==
    IF fail THEN StageRaised(c, "Exception")
    ELSE nexgen_record_cost_guardrail([c EXCEPT !.p.script = "script"], StageCost.script)

lewis_generate_script(c, fail) ==
    IF fail THEN StageRaised(c, "Exception")
    ELSE lewis_record_cost_guardrail(
            [c EXCEPT !.p = mark_state([c.p EXCEPT !.script = "script"], "script_review")],
            StageCost.script)

nexgen_generate_storyboard(c, panels, fail) ==
    IF fail THEN StageRaised(c, "Exception")
    ELSE nexgen_record_cost_guardrail([c EXCEPT !.p.storyboard = panels], StageCost.storyboard)

\* the state write after the guardrail is unconditional
lewis_generate_storyboard(c, panels, fail) ==
    IF fail THEN StageRaised(c, "Exception")
    ELSE [lewis_record_cost_guardrail([c EXCEPT !.p.storyboard = panels],
                                      StageCost.storyboard)
          EXCEPT !.c.p = mark_state(@, "storyboard_ready")]

_generate_shots(v, c, fail) ==
    IF c.p.storyboard = 0 THEN StageRaised(c, "ValueError")
    ELSE IF fail THEN StageRaised(c, "Exception")
    ELSE _record_cost_guardrail(v,
            [c EXCEPT !.p = mark_state([c.p EXCEPT !.shots = c.p.storyboard], "render_pending")],
            StageCost.shots)

_render_master(v, c) ==
    IF c.p.shots = 0 THEN StageRaised(c, "ValueError")
    ELSE _record_cost_guardrail(v,
            [c EXCEPT !.p = mark_state([c.p EXCEPT !.render_manifest = "manifest"],
                                       "preview_pending")],
            StageCost.render)

_generate_preview(v, c, qc_passed, fail) ==
    IF c.p.render_manifest = None THEN StageRaised(c, "ValueError")
    ELSE IF fail THEN StageRaised(c, "Exception")
    ELSE _record_cost_guardrail(v,
            [c EXCEPT !.p = mark_state(
                [c.p EXCEPT !.preview_record =
                                IF qc_passed THEN "approved" ELSE "needs_revision"],
                "preview_ready")],
            StageCost.preview)

_validate_final(v, c, approved, fail) ==
    IF c.p.preview_record = None THEN StageRaised(c, "ValueError")
    ELSE IF fail THEN StageRaised(c, "Exception")
    ELSE _record_cost_guardrail(v,
            [c EXCEPT !.p =
                IF approved
                THEN mark_state([c.p EXCEPT !.validation_record = "approved"],
                                "distribution_pending")
                ELSE mark_state([c.p EXCEPT !.validation_record = "rejected",
                                            !.preview_record = "needs_revision"],
                                "preview_ready")],
            StageCost.validation)

_distribute_assets(v, c) ==
    IF c.p.render_manifest = None THEN StageRaised(c, "ValueError")
    ELSE _record_cost_guardrail(v,
            [c EXCEPT !.p = mark_state([c.p EXCEPT !.distribution_log = 2], "completed")],
            StageCost.distribution)

\* ---- the handlers of CreativeOrchestrator ------------------------------

\* one stage run inside a handler: which stage, the state it was entered in,
\* and what its guardrail did
Run(stage, entry, r) ==
    [stage |-> stage, entry |-> entry, paused |-> r.paused, at_guard |-> r.at_guard,
     raised |-> r.raised]

\* what a handler leaves behind: the objects, the stages it ran, the
\* exception it raised and the telemetry events it emitted itself
Done(c, runs, raised) == [c |-> c, runs |-> runs, raised |-> raised, events |-> <<>>]

\* `if await stage: upsert; return` followed by the rest of the branch
Branch(stage, entry, r, next_state) ==
    IF r.raised # None THEN Done(r.c, <<Run(stage, entry, r)>>, r.raised)
    ELSE IF r.ret \/ next_state = None THEN Done(r.c, <<Run(stage, entry, r)>>, None)
    ELSE Done([r.c EXCEPT !.p = mark_state(@, next_state)], <<Run(stage, entry, r)>>, None)

\* a stage called directly: its outcome is the handler's outcome
Stage(stage, entry, r) == Done(r.c, <<Run(stage, entry, r)>>, r.raised)

\* the handler went on after a first stage run
After(run, d) == Done(d.c, <<run>> \o d.runs, d.raised)

\* the mutation of nexgen_create_after_brief: the answer of the brief stage
\* is not looked at
nexgen_create_after_brief_unchecked(entry, r1, fail_script) ==
    IF r1.raised # None THEN Stage("brief", entry, r1)
    ELSE After(Run("brief", entry, r1),
               Branch("script", r1.c.p.state, nexgen_generate_script(r1.c, fail_script),
                      "script_review"))

\* nexgen_studio create_project once _expand_brief has handed back r1
nexgen_create_after_brief(entry, r1, fail_script) ==
    IF r1.raised # None \/ r1.ret THEN Stage("brief", entry, r1)
    ELSE After(Run("brief", entry, r1),
               Branch("script", r1.c.p.state, nexgen_generate_script(r1.c, fail_script),
                      "script_review"))

\* nexgen_studio create_project
nexgen_create_project(c, fail_brief, fail_script) ==
    nexgen_create_after_brief(c.p.state, _expand_brief("nexgen", c, fail_brief), fail_script)

\* lewis_ai_system create_project once _expand_brief has handed back r1
lewis_create_after_brief(entry, r1, fail_script) ==
    IF r1.raised # None \/ ~r1.ret THEN Stage("brief", entry, r1)
    ELSE After(Run("brief", entry, r1),
               Stage("script", r1.c.p.state, lewis_generate_script(r1.c, fail_script)))

\* lewis_ai_system create_project
lewis_create_project(c, fail_brief, fail_script) ==
    lewis_create_after_brief(c.p.state, _expand_brief("lewis", c, fail_brief), fail_script)

_generate_script(v, c, fail) ==
    IF v = "lewis" THEN lewis_generate_script(c, fail) ELSE nexgen_generate_script(c, fail)

_generate_storyboard(v, c, panels, fail) ==
    IF v = "lewis" THEN lewis_generate_storyboard(c, panels, fail)
    ELSE nexgen_generate_storyboard(c, panels, fail)

\* the mutation of approve_script: the state is not looked at
approve_script_unguarded(v, c, panels, fail) ==
    Branch("storyboard", "storyboard_pending",
           _generate_storyboard(v, [c EXCEPT !.p = mark_state(@, "storyboard_pending")],
                                panels, fail),
           "storyboard_ready")

\* approve_script (the same text in both trees)
approve_script(v, c, panels, fail) ==
    IF c.p.state # "script_review" THEN Done(c, <<>>, "ValueError")
    ELSE LET c1 == [c EXCEPT !.p = mark_state(@, "storyboard_pending")]
         IN Branch("storyboard", c1.p.state, _generate_storyboard(v, c1, panels, fail),
                   "storyboard_ready")

\* nexgen_studio regenerate_storyboard
regenerate_storyboard(c, panels, fail) ==
    IF c.p.state \notin {"storyboard_ready", "storyboard_pending"} THEN Done(c, <<>>, "ValueError")
    ELSE IF c.p.script = None THEN Done(c, <<>>, "ValueError")
    ELSE LET c1 == [c EXCEPT !.p = mark_state([c.p EXCEPT !.storyboard = 0],
                                              "storyboard_pending")]
         IN Branch("storyboard", c1.p.state,
                   nexgen_generate_storyboard(c1, panels, fail), "storyboard_ready")

\* the mutation of advance_script_review: the script waits for approve_script
\* in both trees
advance_script_review_waiting(v, c, panels, fail) == Done(c, <<>>, None)

\* the script_review branch of advance: nexgen_studio approves the script and
\* runs the storyboard stage, lewis_ai_system waits for approve_script
advance_script_review(v, c, panels, fail) ==
    IF v = "lewis" THEN Done(c, <<>>, None)
    ELSE LET c1 == [c EXCEPT !.p = mark_state(@, "storyboard_pending")]
         IN Branch("storyboard", c1.p.state,
                   nexgen_generate_storyboard(c1, panels, fail), "storyboard_ready")

\* the branch of advance for the state `s` it read on entry
advance_branch(v, s, c, panels, qc_passed, approved, fail) ==
    CASE s = "paused" -> Done(c, <<>>, None)
      [] s = "brief_pending" -> Branch("brief", s, _expand_brief(v, c, fail), None)
      [] s = "script_pending" ->
            Branch("script", s, _generate_script(v, c, fail), "script_review")
      [] s = "script_review" -> advance_script_review(v, c, panels, fail)
      [] s = "storyboard_pending" ->
            Branch("storyboard", s, _generate_storyboard(v, c, panels, fail),
                   "storyboard_ready")
      [] s = "storyboard_ready" -> Branch("shots", s, _generate_shots(v, c, fail), None)
      [] s = "render_pending" -> Branch("render", s, _render_master(v, c), None)
      [] s = "preview_pending" ->
            Branch("preview", s, _generate_preview(v, c, qc_passed, fail), None)
      [] s = "preview_ready" -> Done(c, <<>>, None)
      [] s = "validation_pending" ->
            Branch("validation", s, _validate_final(v, c, approved, fail), None)
      [] s = "distribution_pending" -> Branch("distribution", s, _distribute_assets(v, c), None)
      [] s = "completed" -> Done(c, <<>>, None)
      [] OTHER -> Done(c, <<>>, None)

\* the `try` block of advance
advance_try(v, c, panels, qc_passed, approved, fail) ==
    advance_branch(v, c.p.state, c, panels, qc_passed, approved, fail)

\* the mutation of advance_except: no event is emitted for the exception
advance_except_silent(d) == d

\* the `except Exception` block of advance: the event, then `raise e`
advance_except(d) ==
    IF d.raised # None THEN [d EXCEPT !.events = @ \o <<"creative_workflow_error">>] ELSE d

\* advance
advance(v, c, panels, qc_passed, approved, fail) ==
    advance_except(advance_try(v, c, panels, qc_passed, approved, fail))

\* approve_preview
approve_preview(c) ==
    IF c.p.state # "preview_ready" THEN Done(c, <<>>, "ValueError")
    ELSE IF c.p.preview_record = None THEN Done(c, <<>>, "ValueError")
    ELSE Done([c EXCEPT !.p = mark_state([c.p EXCEPT !.preview_record = "approved"],
                                         "validation_pending")], <<>>, None)

\* lewis_ai_system expand_project_brief
expand_project_brief(c, fail) == Stage("brief", c.p.state, _expand_brief("lewis", c, fail))

\* lewis_ai_system generate_script
generate_script(c, fail) == Stage("script", c.p.state, lewis_generate_script(c, fail))

\* lewis_ai_system split_script_to_storyboard
split_script_to_storyboard(c, panels, fail) ==
    Stage("storyboard", c.p.state, lewis_generate_storyboard(c, panels, fail))

\* routers/creative.py pause_project
pause_project(c, reason) ==
    IF c.p.state = "paused" THEN Done(c, <<>>, "ValueError")
    ELSE Done([c EXCEPT !.p = [c.p EXCEPT !.pre_pause_state = c.p.state,
                                          !.pause_reason = reason, !.paused_at = now,
                                          !.state = "paused"]], <<>>, None)

\* the mutation of resume_project: the project restarts from the first stage
resume_project_restarts(c) ==
    IF c.p.state # "paused" THEN Done(c, <<>>, "ValueError")
    ELSE Done([c EXCEPT !.p = [c.p EXCEPT !.state = "brief_pending",
                                          !.pre_pause_state = None, !.pause_reason = None,
                                          !.paused_at = -1]], <<>>, None)

\* routers/creative.py resume_project
resume_project(c) ==
    IF c.p.state # "paused" THEN Done(c, <<>>, "ValueError")
    ELSE Done([c EXCEPT !.p = [c.p EXCEPT !.state = IF c.p.pre_pause_state # None
                                                   THEN c.p.pre_pause_state
                                                   ELSE "brief_pending",
                                          !.pre_pause_state = None, !.pause_reason = None,
                                          !.paused_at = -1]], <<>>, None)

\* the mutation of generate_video_task: the project accepts the video_url
generate_video_task_field_declared(c, provider_cost, fail) ==
    IF fail
    THEN Done([c EXCEPT !.p.error_message = "Exception"], <<>>, "Exception")
    ELSE Done([c EXCEPT !.p.cost_usd = @ + provider_cost,
                        !.p.state = "rendering_complete"], <<>>, None)

\* task_queue.py generate_video_task for a project id.  The provider is
\* called first; the result is then put on the project, starting with
\* `project.video_url = ...`.  CreativeProject declares no such field and a
\* pydantic model refuses the assignment with ValueError, so the lines after
\* it (the cost, the state, the upsert) are reached only if the field is
\* declared.  The handler of every exception writes error_message, upserts
\* and raises the exception again.
generate_video_task(c, provider_cost, fail) ==
    IF fail
    THEN Done([c EXCEPT !.p.error_message = "Exception"], <<>>, "Exception")
    ELSE IF "video_url" \notin ProjectFields
    THEN Done([c EXCEPT !.p.error_message = "ValueError"], <<>>, "ValueError")
    ELSE Done([c EXCEPT !.p.cost_usd = @ + provider_cost,
                        !.p.state = "rendering_complete"], <<>>, None)

\* ---- the handlers as steps ---------------------------------------------

NoOp == [op |-> None, runs |-> <<>>, raised |-> None, emitted |-> <<>>, restored |-> None]
NoPauseLog ==
    [kind |-> None, stage |-> None, entry |-> None, from |-> None, recorded |-> None]
NoWatch == [stage |-> None, phase |-> None]

\* the advance calls that can be in flight together
Calls == {"a", "b"}

\* an advance call: idle or suspended in its stage, the branch it took on
\* entry, whether the other call was in flight with it, and the stage it
\* charged when it finished
NoAdvance == [pc |-> "idle", branch |-> None, overlapped |-> FALSE, charged |-> None]

PInit ==
    /\ calls = [k \in Calls |-> NoAdvance]
    /\ project = NoProject
    /\ last_op = NoOp
    /\ pause_log = NoPauseLog
    /\ resume_watch = NoWatch
    /\ wrapper_calls = 0

TheCtx == Ctx(project, cost_tracker, cost_monitor)

Charges == Len(cost_monitor.snapshots[ProjectId])

\* A handler ran: its writes reach the repository, the ledger and the monitor,
\* and the bookkeeping of the run is kept for the properties.
Finish(op, h) ==
    LET pr == {i \in DOMAIN h.runs : h.runs[i].paused}
        run == h.runs[CHOOSE i \in pr : TRUE]
        ok == h.raised = None
    IN
    /\ project' = h.c.p
    /\ cost_tracker' = h.c.tracker
    /\ cost_monitor' = h.c.m
    /\ telemetry' = telemetry \o h.c.ev
    /\ last_op' = [op |-> op, runs |-> h.runs, raised |-> h.raised,
                   emitted |-> (IF pr # {} THEN <<"creative_project_paused">> ELSE <<>>)
                               \o h.events,
                   restored |-> IF op = "resume_project" /\ ok
                                THEN pause_log.recorded ELSE None]
    /\ pause_log' =
          IF pr # {}
          THEN [kind |-> "guardrail", stage |-> run.stage, entry |-> run.entry,
                from |-> run.at_guard, recorded |-> h.c.p.pre_pause_state]
          ELSE IF op = "pause_project" /\ ok
          THEN [kind |-> "manual", stage |-> None, entry |-> None,
                from |-> project.state, recorded |-> h.c.p.pre_pause_state]
          ELSE IF op = "resume_project" /\ ok THEN NoPauseLog
          ELSE pause_log
    /\ resume_watch' =
          IF op = "resume_project" /\ ok
          THEN (IF pause_log.kind = "guardrail"
                THEN [stage |-> pause_log.stage, phase |-> "resumed"] ELSE NoWatch)
          ELSE IF op = "advance"
          THEN (IF resume_watch.phase = "resumed"
                THEN [resume_watch EXCEPT !.phase = "advanced"] ELSE NoWatch)
          ELSE IF resume_watch.phase = "advanced" THEN NoWatch
          ELSE resume_watch
    /\ wrapper_calls' =
          IF op \in {"expand_project_brief", "generate_script", "split_script_to_storyboard"}
          THEN wrapper_calls + 1 ELSE wrapper_calls
    /\ UNCHANGED <<now, last_pause, produced_thresholds>>

Exists == project.state # "absent"

nexgen_create_project_called(requests, fails) ==
    \E payload \in requests, fb \in fails, fs \in fails :
        /\ ~Exists
        /\ \E h \in {nexgen_create_project(Ctx(CreativeProject(payload[1], payload[2]), cost_tracker, cost_monitor), fb, fs)} :
              Finish("create_project", h)

Nexgen_create_project == nexgen_create_project_called(ProjectRequests, BOOLEAN)

Lewis_create_project ==
    \E payload \in ProjectRequests, fb \in BOOLEAN, fs \in BOOLEAN :
        /\ ~Exists
        /\ \E h \in {lewis_create_project(Ctx(CreativeProject(payload[1], payload[2]), cost_tracker, cost_monitor), fb, fs)} :
              Finish("create_project", h)

Nexgen_approve_script ==
    \E panels \in PanelCounts, fail \in BOOLEAN :
        /\ Exists /\ Charges < MaxCharges
        /\ \E h \in {approve_script("nexgen", TheCtx, panels, fail)} :
              Finish("approve_script", h)

Lewis_approve_script ==
    \E panels \in PanelCounts, fail \in BOOLEAN :
        /\ Exists /\ Charges < MaxCharges
        /\ \E h \in {approve_script("lewis", TheCtx, panels, fail)} :
              Finish("approve_script", h)

Nexgen_regenerate_storyboard ==
    \E panels \in PanelCounts, fail \in BOOLEAN :
        /\ Exists /\ Charges < MaxCharges
        /\ \E h \in {regenerate_storyboard(TheCtx, panels, fail)} :
              Finish("regenerate_storyboard", h)

nexgen_advance_called(panel_counts, answers, fails) ==
    \E panels \in panel_counts, qc_passed \in answers, approved \in answers, fail \in fails :
        /\ Exists /\ Charges < MaxCharges
        /\ \E h \in {advance("nexgen", TheCtx, panels, qc_passed, approved, fail)} :
              Finish("advance", h)

Nexgen_advance == nexgen_advance_called(PanelCounts, BOOLEAN, BOOLEAN)

Lewis_advance ==
    \E panels \in PanelCounts, qc_passed \in BOOLEAN, approved \in BOOLEAN, fail \in BOOLEAN :
        /\ Exists /\ Charges < MaxCharges
        /\ \E h \in {advance("lewis", TheCtx, panels, qc_passed, approved, fail)} :
              Finish("advance", h)

CreativeOrchestrator_approve_preview ==
    /\ Exists
    /\ \E h \in {approve_preview(TheCtx)} :
          Finish("approve_preview", h)

Lewis_expand_project_brief ==
    \E fail \in BOOLEAN :
        /\ Exists /\ Charges < MaxCharges /\ wrapper_calls < MaxWrapperCalls
        /\ \E h \in {expand_project_brief(TheCtx, fail)} :
              Finish("expand_project_brief", h)

Lewis_generate_script ==
    \E fail \in BOOLEAN :
        /\ Exists /\ Charges < MaxCharges /\ wrapper_calls < MaxWrapperCalls
        /\ \E h \in {generate_script(TheCtx, fail)} :
              Finish("generate_script", h)

Lewis_split_script_to_storyboard ==
    \E panels \in PanelCounts, fail \in BOOLEAN :
        /\ Exists /\ Charges < MaxCharges /\ wrapper_calls < MaxWrapperCalls
        /\ \E h \in {split_script_to_storyboard(TheCtx, panels, fail)} :
              Finish("split_script_to_storyboard", h)

\* the costs a video provider reports for one generation, in cents
ProviderCosts == {0, 50}

Worker_generate_video_task ==
    \E provider_cost \in ProviderCosts, fail \in BOOLEAN :
        /\ Exists
        /\ \E h \in {generate_video_task(TheCtx, provider_cost, fail)} :
              Finish("generate_video_task", h)

Router_pause_project ==
    /\ Exists
    /\ \E h \in {pause_project(TheCtx, "user_request")} :
          Finish("pause_project", h)

Router_resume_project ==
    /\ Exists
    /\ \E h \in {resume_project(TheCtx)} :
          Finish("resume_project", h)

NexgenNext ==
    \/ Nexgen_create_project
    \/ Nexgen_approve_script
    \/ Nexgen_regenerate_storyboard
    \/ Nexgen_advance
    \/ CreativeOrchestrator_approve_preview
    \/ Worker_generate_video_task
    \/ Router_pause_project
    \/ Router_resume_project

LewisNext ==
    \/ Lewis_create_project
    \/ Lewis_approve_script
    \/ Lewis_advance
    \/ Lewis_expand_project_brief
    \/ Lewis_generate_script
    \/ Lewis_split_script_to_storyboard
    \/ CreativeOrchestrator_approve_preview
    \/ Router_pause_project
    \/ Router_resume_project

\* ---- the pipeline of nexgen_studio with slow stages ---------------------
\* One project whose budget is reached by the last stage, no failing call,
\* and a clock that moves on by more than the monitor's five minutes while a
\* stage is being worked on.

\* budget_limit_usd (in cents) and auto_pause_enabled of the create request
SlowRequests == {<<334, TRUE>>}

Slow_create_project == nexgen_create_project_called(SlowRequests, {FALSE})

Slow_advance == nexgen_advance_called({2}, {TRUE}, {FALSE})

StageWait ==
    /\ now < MaxStageClock
    /\ now' = now + LongWait
    /\ UNCHANGED <<cost_tracker, telemetry, cost_monitor, last_pause, produced_thresholds,
                   pvars>>

SlowNext ==
    \/ Slow_create_project
    \/ Slow_advance
    \/ CreativeOrchestrator_approve_preview
    \/ Router_resume_project
    \/ StageWait

\* ---- advance calls of nexgen_studio that overlap ------------------------
\* The event loop runs one call until it awaits.  repository.get does not
\* suspend; a stage suspends at its agent or provider call, after the state
\* was read and before the stage writes anything.  No lock is taken.

OverlapRequests == {<<5000, TRUE>>}

\* the stage of this state awaits an agent or a provider before it writes
Suspends(p) ==
    \/ p.state \in {"brief_pending", "script_pending", "script_review", "storyboard_pending"}
    \/ p.state = "storyboard_ready" /\ p.storyboard # 0
    \/ p.state = "preview_pending" /\ p.render_manifest # None
    \/ p.state = "validation_pending" /\ p.preview_record # None

Overlap_create_project == nexgen_create_project_called(OverlapRequests, {FALSE})

\* advance up to the await of its stage: the state is read, the SCRIPT_REVIEW
\* branch marks STORYBOARD_PENDING, and the call is suspended
advance_begin(k) ==
    /\ Exists /\ Charges < MaxCharges
    /\ calls[k].pc = "idle"
    /\ Suspends(project)
    /\ project' = IF project.state = "script_review"
                  THEN mark_state(project, "storyboard_pending") ELSE project
    /\ calls' = [j \in Calls |->
                    IF j = k
                    THEN [pc |-> "awaiting", branch |-> project'.state,
                          overlapped |-> \E o \in Calls \ {k} : calls[o].pc = "awaiting",
                          charged |-> None]
                    ELSE IF calls[j].pc = "awaiting"
                    THEN [calls[j] EXCEPT !.overlapped = TRUE] ELSE calls[j]]
    /\ UNCHANGED <<cvars, last_op, pause_log, resume_watch, wrapper_calls>>

\* the stage charged by a finished handler call
ChargedStage(h) ==
    IF \E i \in DOMAIN h.runs : h.runs[i].at_guard # None
    THEN h.runs[CHOOSE i \in DOMAIN h.runs : h.runs[i].at_guard # None].stage
    ELSE None

\* the awaited call came back: the rest of the stage and of the branch run
\* on the project as it is now
advance_finish(k, h) ==
    /\ Finish("advance", h)
    /\ calls' = [calls EXCEPT ![k].pc = "idle", ![k].charged = ChargedStage(h)]

advance_end(k) ==
    /\ calls[k].pc = "awaiting"
    /\ \E h \in {advance_except(advance_branch("nexgen", calls[k].branch, TheCtx,
                                                2, TRUE, TRUE, FALSE))} :
          advance_finish(k, h)

\* an advance call whose branch does not suspend
advance_at_once ==
    /\ Exists /\ Charges < MaxCharges
    /\ ~Suspends(project)
    /\ \E h \in {advance("nexgen", TheCtx, 2, TRUE, TRUE, FALSE)} : Finish("advance", h)
    /\ UNCHANGED calls

Overlap_approve_preview == CreativeOrchestrator_approve_preview /\ UNCHANGED calls

OverlapNext ==
    \/ Overlap_create_project /\ UNCHANGED calls
    \/ \E k \in Calls : advance_begin(k)
    \/ \E k \in Calls : advance_end(k)
    \/ advance_at_once
    \/ Overlap_approve_preview

(***************************************************************************)
(* _generate_storyboard: one _generate_single_panel task per scene, all    *)
(* awaited with asyncio.gather.  The tasks complete in any order.          *)
(***************************************************************************)
VARIABLES
    panel_run         \* the storyboard run: its tasks, their completion order, the stored list

svars == <<panel_run>>

\* a task that has not completed yet
Pending == [scene_number |-> 0]

NoPanelRun ==
    [pc |-> "idle", results |-> <<>>, order |-> <<>>, storyboard |-> <<>>]

SInit == panel_run = NoPanelRun

\* the StoryboardPanel task `idx` returns
_generate_single_panel(idx) == [scene_number |-> idx]

\* the mutation of gather: the results come in the order of completion
gather_as_completed(results, order) == [k \in DOMAIN order |-> results[order[k]]]

\* asyncio.gather(*tasks): the results in the order of the tasks
gather(results, order) == results

\* the scenes are split and one task per scene is created, idx from 1
generate_storyboard_begin ==
    \E n \in 0..MaxPanels :
        /\ panel_run.pc # "gathering"
        /\ panel_run' = [pc |-> "gathering", results |-> [i \in 1..n |-> Pending],
                         order |-> <<>>, storyboard |-> panel_run.storyboard]

PendingTasks == {i \in DOMAIN panel_run.results : panel_run.results[i] = Pending}

\* a task returns its panel
panel_done ==
    \E i \in PendingTasks :
        /\ panel_run.pc = "gathering"
        /\ panel_run' = [panel_run EXCEPT !.results[i] = _generate_single_panel(i),
                                          !.order = Append(@, i)]

\* a task raises: gather raises it, and so does the stage
panel_raises ==
    \E i \in PendingTasks :
        /\ panel_run.pc = "gathering"
        /\ panel_run' = [panel_run EXCEPT !.pc = "raised"]

\* every task has returned: `project.storyboard = list(panels)`
gather_join ==
    /\ panel_run.pc = "gathering"
    /\ PendingTasks = {}
    /\ panel_run' = [panel_run EXCEPT !.pc = "stored",
                                      !.storyboard = gather(panel_run.results, panel_run.order)]

SNext == generate_storyboard_begin \/ panel_done \/ panel_raises \/ gather_join

(***************************************************************************)
(* ToolRuntime: the registry of tools and its execute.                     *)
(***************************************************************************)
VARIABLES
    tool_runtime      \* _tools (the registered names) and how the last execute ended

tvars == <<tool_runtime>>

\* the tools registered on default_tool_runtime
ToolNames ==
    {"python_sandbox", "web_search", "web_scrape", "generate_video", "text_to_speech"}

\* a request may name any of them, or a tool nobody registers
RequestNames == ToolNames \cup {"unknown_tool"}

\* no execute yet
NoExecute == [name |-> None, known |-> FALSE, run_raised |-> None, exc |-> None,
           events |-> <<>>]

TInit == tool_runtime = [_tools |-> {}, last |-> NoExecute]

\* How tool.run can end, by tool: None when it returns a ToolResult, else the
\* type of the exception that leaves it.  python_sandbox turns every failure
\* into ToolExecutionError; the other tools raise it for a missing input only:
\* a provider override that is not configured raises RuntimeError in the
\* provider factory, and a failure of the provider call leaves run as it is.
RunOutcomes(name) ==
    CASE name = "python_sandbox" -> {None, "ToolExecutionError"}
      [] name = "web_search"     -> {None, "RuntimeError", "ProviderError"}
      [] name = "web_scrape"     -> {None, "ToolExecutionError", "RuntimeError", "ProviderError"}
      [] name = "generate_video" -> {None, "ToolExecutionError", "ProviderError"}
      [] name = "text_to_speech" -> {None, "ToolExecutionError", "ProviderError"}
      [] OTHER -> {None}

\* ToolRuntime.execute: `run` is how tool.run ends for this request
ToolRuntime_execute(_tools, name, run) ==
    IF name \notin _tools
    THEN [name |-> name, known |-> FALSE, run_raised |-> None,
          exc |-> "ToolExecutionError", events |-> <<>>]
    ELSE IF run # None
    THEN [name |-> name, known |-> TRUE, run_raised |-> run,
          exc |-> run, events |-> <<"tool_start">>]
    ELSE [name |-> name, known |-> TRUE, run_raised |-> None,
          exc |-> None, events |-> <<"tool_start", "tool_complete">>]

\* ToolRuntime.register
ToolRuntime_register ==
    \E name \in ToolNames :
        tool_runtime' = [tool_runtime EXCEPT !._tools = @ \cup {name}]

\* a caller executes a request
ToolRuntime_execute_called ==
    \E name \in RequestNames :
        \E run \in RunOutcomes(name) :
            tool_runtime' = [tool_runtime EXCEPT
                               !.last = ToolRuntime_execute(tool_runtime._tools, name, run)]

ToolNext == ToolRuntime_register \/ ToolRuntime_execute_called

(***************************************************************************)
(* Shared services called from several threads or tasks at once:           *)
(* CostTracker.record, ProviderThrottleManager and the RedisCache lock.    *)
(***************************************************************************)
VARIABLES
    recorders,        \* the threads inside CostTracker.record, and what they have recorded
    throttle,         \* the ProviderThrottleManager, its lock and the tasks that call it
    redis_lock        \* the key of one distributed lock in Redis, and the callers of RedisCache

\* ---- CostTracker.record from several threads ---------------------------

RecordThreads == {"t1", "t2"}

\* a thread outside record
NoRecord == [pc |-> "idle", amount |-> 0, loaded |-> 0]

RInit == recorders = [calls |-> [t \in RecordThreads |-> NoRecord], started |-> 0, sum |-> 0]

\* record(entity_id, amount) is entered: ensure_envelope, under the lock
record_enter(t) ==
    \E amount \in LedgerAmounts :
        /\ recorders.calls[t].pc = "idle"
        /\ recorders.started < MaxThreadRecords
        /\ cost_tracker' = ensure_envelope(cost_tracker, ProjectId, 0)
        /\ recorders' = [recorders EXCEPT !.calls[t] = [pc |-> "ensured", amount |-> amount,
                                                         loaded |-> 0],
                                          !.started = @ + 1]
        /\ UNCHANGED telemetry

\* CostEnvelope.add_cost, `self.spent_usd += amount`, the read: no lock is held
add_cost_read(t) ==
    /\ recorders.calls[t].pc = "ensured"
    /\ recorders' = [recorders EXCEPT !.calls[t].pc = "read",
                                      !.calls[t].loaded = cost_tracker[ProjectId].spent_usd]
    /\ UNCHANGED <<cost_tracker, telemetry>>

\* CostEnvelope.add_cost, the write of what was read plus the amount
add_cost_write(t) ==
    /\ recorders.calls[t].pc = "read"
    /\ cost_tracker' = [cost_tracker EXCEPT ![ProjectId].spent_usd =
                            recorders.calls[t].loaded + recorders.calls[t].amount]
    /\ recorders' = [recorders EXCEPT !.calls[t].pc = "added",
                                      !.sum = @ + recorders.calls[t].amount]
    /\ UNCHANGED telemetry

\* the rest of record: the percentage of what the envelope holds now, and
\* the event of the first percentage reached
record_leave(t) ==
    LET th == FirstThresholdReached(cost_tracker[ProjectId].spent_usd,
                                    cost_tracker[ProjectId].limit_usd) IN
    /\ recorders.calls[t].pc = "added"
    /\ telemetry' = IF th = 0 THEN telemetry
                    ELSE Append(telemetry, [name |-> "cost_threshold",
                                            entity_id |-> ProjectId, threshold |-> th])
    /\ recorders' = [recorders EXCEPT !.calls[t] = NoRecord]
    /\ UNCHANGED cost_tracker

RNext ==
    /\ \E t \in RecordThreads :
          record_enter(t) \/ add_cost_read(t) \/ add_cost_write(t) \/ record_leave(t)
    /\ UNCHANGED <<now, cost_monitor, last_pause, produced_thresholds, throttle, redis_lock>>

\* ---- ProviderThrottleManager, called from tasks of one event loop ------
\* A task runs until it has to wait.  `async with self._lock` lets the task
\* go on at once when the lock is free (asyncio.Lock.acquire returns without
\* suspending) and suspends it while the lock is held.  The clock stays
\* within one minute and one day: no timestamp ages and no daily count is
\* reset.

ThrottleTasks == {"a", "b", "c"}

\* the providers requests are made for: one with a configured quota, one without
RequestProviders == {"runway", "other"}

Providers == {"openrouter", "runway", "pika", "other"}

NoQuota == [rpm |-> 0, concurrent |-> 0, daily_limit |-> 0, present |-> FALSE]

ProviderQuota(rpm, concurrent, daily_limit) ==
    [rpm |-> rpm, concurrent |-> concurrent, daily_limit |-> daily_limit, present |-> TRUE]

ProviderMetrics ==
    [total_requests |-> 0, successful_requests |-> 0, failed_requests |-> 0,
     rate_limit_hits |-> 0, daily_request_count |-> 0]

NoThrottleCall == [task |-> None, op |-> None, provider |-> None, result |-> None]

\* ProviderThrottleManager() with the default settings: the quotas of
\* _initialize_quotas and a metrics entry for each of them
ProviderThrottleManager ==
    [quotas |-> [p \in Providers |->
                    CASE p = "openrouter" -> ProviderQuota(60, 5, 10000)
                      [] p \in {"runway", "pika"} -> ProviderQuota(30, 2, 5000)
                      [] OTHER -> NoQuota],
     metrics |-> [p \in {"openrouter", "runway", "pika"} |-> ProviderMetrics],
     active_requests |-> [p \in Providers |-> 0],
     request_timestamps |-> [p \in Providers |-> 0],
     _lock |-> None,
     waiting |-> [k \in ThrottleTasks |-> None],
     calls |-> 0,
     last |-> NoThrottleCall]

TInitThrottle == throttle = ProviderThrottleManager

\* the tasks that are not inside a call.  A task that waits stays inside its
\* call: the lock it waits for is held by a get_metrics() that waits for the
\* same lock, and nothing releases it.
IdleTasks == {k \in ThrottleTasks : throttle.waiting[k] = None}

\* get_quota: a provider without a quota gets the default one, and metrics
get_quota(th, p) ==
    IF th.quotas[p].present THEN th
    ELSE [th EXCEPT !.quotas[p] = ProviderQuota(60, 1, 0),
                    !.metrics = [q \in DOMAIN th.metrics \cup {p} |-> IF q = p THEN ProviderMetrics ELSE th.metrics[q]]]

\* `self.metrics[provider_name]` on the defaultdict: the entry is made when missing
metrics_entry(th, p) ==
    IF p \in DOMAIN th.metrics THEN th
    ELSE [th EXCEPT !.metrics = [q \in DOMAIN th.metrics \cup {p} |-> IF q = p THEN ProviderMetrics ELSE th.metrics[q]]]

\* the mutation of check_rate_limit: the concurrent limit is not looked at
check_rate_limit_without_concurrent(th, p) ==
    LET t1 == metrics_entry(get_quota(th, p), p)
        quota == t1.quotas[p]
    IN IF quota.daily_limit # 0 /\ t1.metrics[p].daily_request_count >= quota.daily_limit
       THEN [th |-> t1, allowed |-> FALSE]
       ELSE IF t1.request_timestamps[p] >= quota.rpm THEN [th |-> t1, allowed |-> FALSE]
       ELSE [th |-> t1, allowed |-> TRUE]

\* check_rate_limit, the section under the lock: the manager after it and
\* whether the request is allowed
check_rate_limit(th, p) ==
    LET t1 == metrics_entry(get_quota(th, p), p)
        quota == t1.quotas[p]
    IN IF quota.daily_limit # 0 /\ t1.metrics[p].daily_request_count >= quota.daily_limit
       THEN [th |-> t1, allowed |-> FALSE]
       ELSE IF t1.active_requests[p] >= quota.concurrent THEN [th |-> t1, allowed |-> FALSE]
       ELSE IF t1.request_timestamps[p] >= quota.rpm THEN [th |-> t1, allowed |-> FALSE]
       ELSE [th |-> t1, allowed |-> TRUE]

\* acquire_slot once check_rate_limit has answered `c`: the hit is counted, or
\* the slot is taken in a second section under the lock
acquire_slot(c, p) ==
    IF ~c.allowed
    THEN [th |-> [c.th EXCEPT !.metrics[p].rate_limit_hits = @ + 1], granted |-> FALSE]
    ELSE [th |-> [c.th EXCEPT !.active_requests[p] = @ + 1,
                              !.request_timestamps[p] = @ + 1,
                              !.metrics[p].total_requests = @ + 1,
                              !.metrics[p].daily_request_count = @ + 1],
          granted |-> TRUE]

\* release_slot with latency_ms = 0
release_slot(th, p, success) ==
    LET t1 == IF th.active_requests[p] > 0
              THEN [th EXCEPT !.active_requests[p] = @ - 1] ELSE th
        t2 == metrics_entry(t1, p)
    IN IF success THEN [t2 EXCEPT !.metrics[p].successful_requests = @ + 1]
       ELSE [t2 EXCEPT !.metrics[p].failed_requests = @ + 1]

\* a task calls acquire_slot: with the lock free it runs to its return, both
\* sections under the lock included; with the lock held it waits for it
ProviderThrottleManager_acquire_slot ==
    \E k \in IdleTasks, p \in RequestProviders :
        /\ throttle.calls < MaxThrottleCalls
        /\ IF throttle._lock # None
           THEN throttle' = [throttle EXCEPT !.waiting[k] = "acquire_slot", !.calls = @ + 1]
           ELSE \E r \in {acquire_slot(check_rate_limit(throttle, p), p)} :
                   throttle' = [r.th EXCEPT !.calls = @ + 1,
                                           !.last = [task |-> k, op |-> "acquire_slot",
                                                     provider |-> p, result |-> r.granted]]

\* a task calls release_slot
ProviderThrottleManager_release_slot ==
    \E k \in IdleTasks, p \in RequestProviders, success \in BOOLEAN :
        /\ throttle.calls < MaxThrottleCalls
        /\ IF throttle._lock # None
           THEN throttle' = [throttle EXCEPT !.waiting[k] = "release_slot", !.calls = @ + 1]
           ELSE throttle' = [release_slot(throttle, p, success) EXCEPT
                               !.calls = @ + 1,
                               !.last = [task |-> k, op |-> "release_slot",
                                         provider |-> p, result |-> None]]

\* a task calls get_metrics(provider_name): under the lock it answers {} for
\* a provider without metrics, else the provider's quota and metrics
ProviderThrottleManager_get_metrics_of ==
    \E k \in IdleTasks, p \in RequestProviders :
        /\ throttle.calls < MaxThrottleCalls
        /\ IF throttle._lock # None
           THEN throttle' = [throttle EXCEPT !.waiting[k] = "get_metrics_of", !.calls = @ + 1]
           ELSE throttle' = [(IF p \in DOMAIN throttle.metrics THEN get_quota(throttle, p)
                              ELSE throttle) EXCEPT
                               !.calls = @ + 1,
                               !.last = [task |-> k, op |-> "get_metrics",
                                         provider |-> p,
                                         result |-> IF p \in DOMAIN throttle.metrics
                                                    THEN {p} ELSE {}]]

\* a task calls get_metrics(): it takes the lock and, for the first provider
\* that has metrics, awaits get_metrics(provider), which asks for the lock
\* the task itself holds: the task waits with the lock held.  With no
\* metrics at all it answers {} and lets the lock go.
ProviderThrottleManager_get_metrics ==
    \E k \in IdleTasks :
        /\ throttle.calls < MaxThrottleCalls
        /\ IF throttle._lock # None \/ DOMAIN throttle.metrics # {}
           THEN throttle' = [throttle EXCEPT
                               !._lock = IF @ = None THEN k ELSE @,
                               !.waiting[k] = "get_metrics", !.calls = @ + 1]
           ELSE throttle' = [throttle EXCEPT
                               !.calls = @ + 1,
                               !.last = [task |-> k, op |-> "get_metrics",
                                         provider |-> None, result |-> {}]]

ThrottleNext ==
    /\ \/ ProviderThrottleManager_acquire_slot
       \/ ProviderThrottleManager_release_slot
       \/ ProviderThrottleManager_get_metrics_of
       \/ ProviderThrottleManager_get_metrics
    /\ UNCHANGED <<recorders, redis_lock>>

\* ---- RedisCache.lock_acquire and lock_release for one lock name --------
\* Every command is one round trip to Redis; callers run between the round
\* trips of each other, and Redis expires the key when its time is over.
\* `fail` is the command raising: the method logs it and answers False.

LockOwners == {"A", "B"}

\* a caller outside lock_release
NoRelease == [pc |-> "idle", current_owner |-> None]

NoLockCall == [op |-> None, owner |-> None, result |-> None, deleted |-> None]

LockInit ==
    redis_lock = [key |-> None,
                  releasing |-> [o \in LockOwners |-> NoRelease],
                  last |-> NoLockCall]

\* lock_acquire: SET key owner NX EX
lock_acquire(owner) ==
    \E fail \in BOOLEAN :
        /\ redis_lock.releasing[owner].pc = "idle"
        /\ redis_lock' =
              [redis_lock EXCEPT
                 !.key = IF ~fail /\ @ = None THEN owner ELSE @,
                 !.last = [op |-> "lock_acquire", owner |-> owner,
                           result |-> (~fail /\ redis_lock.key = None), deleted |-> None]]

\* the key reaches its expiry time
lock_expire ==
    /\ redis_lock.key # None
    /\ redis_lock' = [redis_lock EXCEPT !.key = None]

\* lock_release, `current_owner = await self.client.get(key)`
lock_release_get(owner) ==
    \E fail \in BOOLEAN :
        /\ redis_lock.releasing[owner].pc = "idle"
        /\ redis_lock' =
              IF fail
              THEN [redis_lock EXCEPT
                      !.last = [op |-> "lock_release", owner |-> owner,
                                result |-> FALSE, deleted |-> None]]
              ELSE [redis_lock EXCEPT
                      !.releasing[owner] = [pc |-> "got", current_owner |-> redis_lock.key]]

\* lock_release, `if current_owner == owner: await self.client.delete(key)`:
\* `deleted` is the owner whose lock the DEL removed
lock_release_compare(owner, fail) ==
    IF fail \/ redis_lock.releasing[owner].current_owner # owner
    THEN [redis_lock EXCEPT
            !.releasing[owner] = NoRelease,
            !.last = [op |-> "lock_release", owner |-> owner,
                      result |-> FALSE, deleted |-> None]]
    ELSE [redis_lock EXCEPT
            !.key = None,
            !.releasing[owner] = NoRelease,
            !.last = [op |-> "lock_release", owner |-> owner, result |-> TRUE,
                      deleted |-> redis_lock.key]]

lock_release_delete(owner) ==
    \E fail \in BOOLEAN :
        /\ redis_lock.releasing[owner].pc = "got"
        /\ redis_lock' = lock_release_compare(owner, fail)

LockNext ==
    /\ \/ \E owner \in LockOwners : lock_acquire(owner)
       \/ lock_expire
       \/ \E owner \in LockOwners : lock_release_get(owner)
       \/ \E owner \in LockOwners : lock_release_delete(owner)
    /\ UNCHANGED <<recorders, throttle>>

xvars == <<recorders, throttle, redis_lock>>

XInit == RInit /\ TInitThrottle /\ LockInit
(***************************************************************************)
(* Specifications.                                                         *)
(***************************************************************************)
vars == <<gvars, cvars, pvars, ovars, svars, tvars, xvars>>

Init == GInit /\ CInit /\ PInit /\ SInit /\ TInit /\ XInit


\* the General loop with the ledger it reports to
SpecGeneral == Init /\ [][GNext /\ UNCHANGED <<pvars, ovars, svars, tvars, xvars>>]_vars

\* the ledger driven through its own interface
SpecLedger == Init /\ [][LNext /\ UNCHANGED <<gvars, pvars, ovars, svars, tvars, xvars>>]_vars

\* the monitor driven through its own interface
SpecMonitor == Init /\ [][MNext /\ UNCHANGED <<gvars, pvars, ovars, svars, tvars, xvars>>]_vars

\* the monitor driven through its own interface while the clock advances
SpecMonitorClock == Init /\ [][TNext /\ UNCHANGED <<gvars, pvars, ovars, svars, tvars, xvars>>]_vars

\* the Creative pipeline of nexgen_studio with the pause and resume endpoints
SpecNexgen == Init /\ [][NexgenNext /\ UNCHANGED <<gvars, ovars, svars, tvars, xvars>>]_vars

\* the Creative pipeline of lewis_ai_system with the pause and resume endpoints
SpecLewis == Init /\ [][LewisNext /\ UNCHANGED <<gvars, ovars, svars, tvars, xvars>>]_vars

\* the Creative pipeline of nexgen_studio with slow stages
SpecNexgenSlow == Init /\ [][SlowNext /\ UNCHANGED <<gvars, ovars, svars, tvars, xvars>>]_vars

\* advance calls of nexgen_studio for one project that overlap
SpecNexgenOverlap == Init /\ [][OverlapNext /\ UNCHANGED <<gvars, svars, tvars, xvars>>]_vars

\* one storyboard stage after another, the panel tasks completing in any order
SpecStoryboard == Init /\ [][SNext /\ UNCHANGED <<gvars, cvars, pvars, ovars, tvars, xvars>>]_vars

\* tools are registered and requests executed, in any order
SpecTools == Init /\ [][ToolNext /\ UNCHANGED <<gvars, cvars, pvars, ovars, svars, xvars>>]_vars

\* threads that call CostTracker.record for one entity at once
SpecLedgerThreads == Init /\ [][RNext /\ UNCHANGED <<gvars, pvars, ovars, svars, tvars>>]_vars

\* tasks of one event loop that call the throttle manager
SpecThrottle == Init /\ [][ThrottleNext /\ UNCHANGED <<gvars, cvars, pvars, ovars, svars, tvars>>]_vars

\* callers of the distributed lock of one name, and its expiry
SpecRedisLock == Init /\ [][LockNext /\ UNCHANGED <<gvars, cvars, pvars, ovars, svars, tvars>>]_vars

Spec == SpecGeneral

(***************************************************************************)
(* Claims about the General loop.                                          *)
(***************************************************************************)

\* C1: a GuardrailTriggered raised by the recording wrapper during a tool call
\* always leaves react_loop as that exception (so run_iteration's
\* `except GuardrailTriggered` sees it) and is never turned into an
\* "Observation: ..." entry of the loop history.
C1_GuardrailPropagates ==
    /\ \A i \in DOMAIN history : history[i].detail \notin GuardrailMessages
    /\ (gpc = "finish" /\ raised_in_tool # {}) => loop_result.exc.type = "GuardrailTriggered"

\* C2: when the iteration or budget guardrail tripped inside a tool call, the
\* run_iteration call returns the session PAUSED with a pause_reason, never
\* COMPLETED or FAILED.
C2_TripLeavesPaused ==
    (gpc = "idle" /\ last_call = "returned"
        /\ raised_in_tool \cap {"max_iterations", "budget_exceeded"} # {})
    => (session.state = "paused" /\ session.pause_reason # None)

(***************************************************************************)
(* Claims about the cost ledger and the cost monitor.                      *)
(***************************************************************************)
ThresholdEvents(e, th) ==
    Cardinality({i \in DOMAIN telemetry :
                    /\ telemetry[i].name = "cost_threshold"
                    /\ telemetry[i].entity_id = e
                    /\ telemetry[i].threshold = th})

\* C8: CostTracker.record emits the cost_threshold event exactly once per
\* (entity, threshold) crossing: one event once the entity's spend has reached
\* the percentage of its limit, and no further event for that pair however
\* often record is called while above it.
C8_OncePerCrossing ==
    \A e \in Entities : \A i \in DOMAIN cost_alert_percentages :
        LET th == cost_alert_percentages[i]
            crossed == /\ cost_tracker[e].present
                       /\ cost_tracker[e].spent_usd * 100 >= th * cost_tracker[e].limit_usd
        IN /\ ThresholdEvents(e, th) <= 1
           /\ crossed => ThresholdEvents(e, th) = 1

\* C9: over the whole life of the monitor, check_for_anomalies returns a
\* budget_threshold anomaly at most once for each (entity, percentage) pair.
C9_ThresholdAtMostOnce ==
    \A k \in DOMAIN produced_thresholds : produced_thresholds[k] <= 1

\* Both percentages were reported once, and a later check found the entity at
\* or over its budget without reporting a percentage again.
C9_Witness ==
    /\ produced_thresholds[<<"p1", 95>>] = 1
    /\ produced_thresholds[<<"p1", 100>>] = 1
    /\ \E i \in DOMAIN cost_monitor.anomalies :
          cost_monitor.anomalies[i].alert_type = "budget_exceeded"
    /\ \A i \in DOMAIN cost_monitor.anomalies :
          cost_monitor.anomalies[i].alert_type # "budget_threshold"

\* C10: with auto-pause enabled, a should_pause_entity call for an entity
\* that is not yet paused and whose latest snapshot is at or over the budget
\* returns (True, "paused_budget"); a call for an entity that is already in
\* paused_entities returns (False, None).
C10_PauseOnBudget ==
    /\ (last_pause.auto /\ ~last_pause.was_paused
            /\ last_pause.cost >= 0 /\ last_pause.cost >= last_pause.limit)
        => (last_pause.paused /\ last_pause.reason = "paused_budget")
    /\ (last_pause.entity_id # None /\ last_pause.was_paused)
        => (~last_pause.paused /\ last_pause.reason = None)

\* The last call found the entity exactly at its budget and paused it.
C10_Witness ==
    /\ last_pause.entity_id = "p1"
    /\ last_pause.auto /\ ~last_pause.was_paused
    /\ last_pause.cost = last_pause.limit
    /\ last_pause.paused /\ last_pause.reason = "paused_budget"
    /\ "p1" \in cost_monitor.paused_entities


\* C11: for an entity that is not already paused, has auto-pause enabled and
\* whose latest cumulative cost is below its budget limit, should_pause_entity
\* answers (True, "paused_anomaly") when the monitor holds at least 2 anomalies
\* of that entity younger than 5 minutes, and (False, None) when it holds
\* fewer than 2.
C11_PauseOnAnomalies ==
    (/\ last_pause.entity_id # None
     /\ last_pause.auto /\ ~last_pause.was_paused
     /\ last_pause.cost >= 0 /\ last_pause.cost < last_pause.limit)
    => IF last_pause.recent >= 2
       THEN last_pause.paused /\ last_pause.reason = "paused_anomaly"
       ELSE ~last_pause.paused /\ last_pause.reason = None

\* a call answered paused_anomaly on two recent anomalies while the monitor
\* also held one older than five minutes
C11_Witness ==
    /\ last_pause.entity_id = "p1"
    /\ last_pause.auto /\ ~last_pause.was_paused
    /\ last_pause.cost >= 0 /\ last_pause.cost < last_pause.limit
    /\ last_pause.recent = 2
    /\ \E i \in DOMAIN cost_monitor.anomalies :
          (now - cost_monitor.anomalies[i].timestamp) * TickSeconds >= 5 * 60
    /\ last_pause.paused /\ last_pause.reason = "paused_anomaly"

SameAlert(a, b) == a.entity_id = b.entity_id /\ a.alert_type = b.alert_type

\* C12: for any (entity, alert_type) pair the registered handlers are invoked
\* at most once within any cooldown window of alert_cooldown_seconds, however
\* often check_for_anomalies detects the condition again within the window.
C12_OneAlertPerCooldown ==
    \A i, j \in DOMAIN cost_monitor.dispatched :
        (i < j /\ SameAlert(cost_monitor.dispatched[i], cost_monitor.dispatched[j]))
        => (cost_monitor.dispatched[j].timestamp - cost_monitor.dispatched[i].timestamp)
              * TickSeconds >= alert_cooldown_seconds

\* the handlers were invoked twice for one pair, a cooldown apart, and a
\* detection in between was held back
C12_Witness ==
    \E i, j \in DOMAIN cost_monitor.dispatched :
        /\ i < j
        /\ SameAlert(cost_monitor.dispatched[i], cost_monitor.dispatched[j])
        /\ Cardinality({k \in DOMAIN cost_monitor.anomalies :
                           SameAlert(cost_monitor.anomalies[k], cost_monitor.dispatched[i])})
              > Cardinality({k \in DOMAIN cost_monitor.dispatched :
                           SameAlert(cost_monitor.dispatched[k], cost_monitor.dispatched[i])})
(***************************************************************************)
(* Claims about the Creative pipeline.                                     *)
(***************************************************************************)
GuardrailPausedIn(op) == \E i \in DOMAIN op.runs : op.runs[i].paused

\* C3: whenever the cost guardrail pauses the project during create_project,
\* advance or approve_script, the project that call leaves in the repository
\* is PAUSED: no next state (SCRIPT_REVIEW, STORYBOARD_READY, ...) is written
\* over the pause.
C3_PauseNotOverwritten ==
    (last_op.op \in {"create_project", "advance", "approve_script"}
        /\ GuardrailPausedIn(last_op))
    => project.state = "paused"

\* C4: after a guardrail pause in stage S and a resume, the next advance does
\* not run stage S again (so the cost of S is charged once).
C4_NoDoubleCharge ==
    resume_watch.phase = "advanced"
    => \A i \in DOMAIN last_op.runs : last_op.runs[i].stage # resume_watch.stage

\* the field each stage writes is on the project
WrittenBy(stage, p) ==
    CASE stage = "brief" -> p.summary # None
      [] stage = "script" -> p.script # None
      [] stage = "storyboard" -> TRUE
      [] stage = "shots" -> p.shots > 0
      [] stage = "render" -> p.render_manifest # None
      [] stage = "preview" -> p.preview_record # None
      [] stage = "validation" -> p.validation_record # None
      [] stage = "distribution" -> p.distribution_log > 0
      [] OTHER -> FALSE

PausedByGuardrail == project.state = "paused" /\ pause_log.kind = "guardrail"

StateWhenCharged(stage, entry, p) ==
    CASE stage = "brief" -> "script_pending"
      [] stage = "shots" -> "render_pending"
      [] stage = "render" -> "preview_pending"
      [] stage = "preview" -> "preview_ready"
      [] stage = "validation" ->
            IF p.validation_record = "approved" THEN "distribution_pending"
            ELSE "preview_ready"
      [] stage = "distribution" -> "completed"
      [] OTHER -> entry

C6_PausedRemembersState ==
    project.state = "paused"
    => /\ project.pre_pause_state # None
       /\ project.pre_pause_state = pause_log.from

\* The pause endpoint paused a project that had its storyboard.
C6_Witness ==
    /\ project.state = "paused"
    /\ pause_log.kind = "manual"
    /\ pause_log.from = "storyboard_ready"
    /\ project.pre_pause_state = "storyboard_ready"
    /\ project.cost_usd > 0

\* C7: a successful resume leaves the project in exactly the pre_pause_state
\* recorded by the pause, with pause_reason and paused_at cleared.
C7_ResumeRoundTrip ==
    (last_op.op = "resume_project" /\ last_op.raised = None)
    => /\ project.state = last_op.restored
       /\ project.pause_reason = None
       /\ project.paused_at = -1

\* A project paused by the guardrail after its first stage was resumed into
\* the state saved by that pause.
C7_Witness ==
    /\ last_op.op = "resume_project" /\ last_op.raised = None
    /\ resume_watch = [stage |-> "brief", phase |-> "resumed"]
    /\ last_op.restored = "script_pending"
    /\ project.state = "script_pending"
    /\ project.pause_reason = None


(***************************************************************************)
(* Claims about run_iteration and the recording wrapper.                   *)
(***************************************************************************)
Entry == call_log.entry

\* the guardrails of the early check, as the session met them at the call
OverLimit(s) == s.iteration >= s.max_iterations \/ s.spent_usd >= s.budget_limit_usd

\* the run_iteration call has returned or raised
CallEnded == gpc = "idle" /\ last_call \in {"returned", "raised", "ValueError"}

\* C13 as stated: run_iteration on an ACTIVE session with iteration >=
\* max_iterations or spent_usd >= budget_limit_usd leaves the session PAUSED
\* and returns without a completion of the reasoning loop and without a tool call.
C13_PreCheckPauses ==
    (Entry.state = "active" /\ OverLimit(Entry))
    => (/\ gpc = "idle" /\ last_call = "returned"
        /\ session.state = "paused"
        /\ call_log.llm_calls = 0 /\ call_log.tool_calls = 0)

\* C13, amended: the same for an ACTIVE session that has auto_pause_enabled.
C13_PreCheckPausesWithAutoPause ==
    (Entry.state = "active" /\ Entry.auto_pause_enabled /\ OverLimit(Entry))
    => (/\ gpc = "idle" /\ last_call = "returned"
        /\ session.state = "paused" /\ session.pause_reason # None
        /\ call_log.llm_calls = 0 /\ call_log.tool_calls = 0)

C13_Witness ==
    /\ Entry.state = "active" /\ Entry.auto_pause_enabled
    /\ Entry.iteration < Entry.max_iterations
    /\ Entry.spent_usd >= Entry.budget_limit_usd
    /\ session.state = "paused" /\ last_call = "returned"

\* C14 as stated: whenever the session is ACTIVE at the start of a step,
\* iteration <= max_iterations; whenever a tool call was let through to the
\* underlying runtime, spent_usd was below budget_limit_usd.
C14_SessionInvariant ==
    /\ (gpc \in {"idle", "loop"} /\ session.state = "active")
        => session.iteration <= session.max_iterations
    /\ call_log.start_spent # -1 => call_log.start_spent < session.budget_limit_usd

\* C14, amended: the budget part holds for sessions that have auto_pause_enabled.
C14_SessionInvariantWithAutoPause ==
    /\ (gpc \in {"idle", "loop"} /\ session.state = "active")
        => session.iteration <= session.max_iterations
    /\ (session.auto_pause_enabled /\ call_log.start_spent # -1)
        => call_log.start_spent < session.budget_limit_usd

\* a second tool call was let through after the first one had cost money
C14_Witness ==
    /\ session.auto_pause_enabled
    /\ call_log.tool_calls = 2
    /\ call_log.start_spent > 0

\* C15: a run_iteration call on a PAUSED session is accepted (it is not
\* turned away with ValueError) and re-checks the guardrails.
C15_PausedIsResumable ==
    (Entry.state = "paused" /\ CallEnded) => last_call # "ValueError"

\* C16: run_iteration on a session that is not ACTIVE raises ValueError, makes
\* no completion and no tool call, and leaves the stored session as it was.
C16_NotActiveRejected ==
    Entry.state \in {"completed", "failed", "paused"}
    => (/\ gpc = "idle" /\ last_call = "ValueError"
        /\ call_log.llm_calls = 0 /\ call_log.tool_calls = 0
        /\ session = Entry)

C16_Witness ==
    /\ Entry.state = "completed"
    /\ last_call = "ValueError"
    /\ session = Entry

\* the step in which the underlying tool raised: its record holds the error
ToolFailed ==
    /\ Len(session'.tool_calls) = Len(session.tool_calls) + 1
    /\ session'.tool_calls[Len(session'.tool_calls)].error

\* C17: when the underlying tool raises during a tool call of the loop, the
\* failure becomes an observation of the loop history, the loop is not left
\* by an exception and the session does not become FAILED.
C17_ToolFailureObserved ==
    [][ToolFailed =>
          /\ Len(history') = Len(history) + 1
          /\ history'[Len(history')].prefix
                \in {"Tool execution failed", "Failed to parse or execute action"}
          /\ loop_result'.kind # "raised"
          /\ session'.state # "failed"]_vars

\* the tool raised, the observation was written and the loop goes on
C17_Witness ==
    /\ gpc = "loop"
    /\ session.tool_calls # <<>>
    /\ session.tool_calls[Len(session.tool_calls)].error
    /\ history # <<>>
    /\ history[Len(history)].prefix = "Tool execution failed"
    /\ session.state = "active"

RECURSIVE SumCosts(_)
SumCosts(records) ==
    IF records = <<>> THEN 0 ELSE Head(records).cost_usd + SumCosts(Tail(records))

LoopCallEnded == gpc = "idle" /\ call_log.determined.state # None

\* C19: when react_loop returned an answer and no guardrail was tripped, the
\* call leaves the session COMPLETED with that answer as its summary.
C19_FinalAnswerCompletes ==
    (LoopCallEnded /\ loop_result.kind = "returned" /\ raised_in_tool = {})
    => (session.state = "completed" /\ session.summary = loop_result.value)

C19_Witness ==
    /\ LoopCallEnded
    /\ call_log.tool_calls = 1
    /\ raised_in_tool = {}
    /\ loop_result = Returned("the text after Final Answer:")
    /\ session.state = "completed"
    /\ session.summary = "the text after Final Answer:"

\* C20: when store_conversation_memory or the summarizer raised, run_iteration
\* still returned normally and state, summary and pause_reason are what the
\* loop outcome decided.
C20_BestEffortPersistence ==
    (LoopCallEnded /\ (call_log.store_failed \/ call_log.summarizer_failed))
    => (last_call = "returned" /\ Outcome(session) = call_log.determined)

\* both failed in a call whose transcript was long enough to be compressed
C20_Witness ==
    /\ LoopCallEnded
    /\ call_log.store_failed /\ call_log.summarizer_failed
    /\ Len(session.messages) > CompressionThreshold
    /\ last_call = "returned"
    /\ session.state = "completed"

(***************************************************************************)
(* Claims about the stages and handlers of the Creative pipeline.          *)
(***************************************************************************)
RECURSIVE AmountsPassed(_)
\* the amounts the stage runs of one handler call passed to
\* _record_cost_guardrail: a run that reached the guardrail passed its
\* stage's amount, a run that raised before it passed nothing
AmountsPassed(runs) ==
    IF runs = <<>> THEN 0
    ELSE (IF Head(runs).at_guard # None THEN StageCost[Head(runs).stage] ELSE 0)
         + AmountsPassed(Tail(runs))

StageFor(state) ==
    CASE state = "brief_pending" -> "brief"
      [] state = "script_pending" -> "script"
      [] state = "script_review" -> "storyboard"
      [] state = "storyboard_pending" -> "storyboard"
      [] state = "storyboard_ready" -> "shots"
      [] state = "render_pending" -> "render"
      [] state = "preview_pending" -> "preview"
      [] state = "validation_pending" -> "validation"
      [] state = "distribution_pending" -> "distribution"
      [] OTHER -> None

AdvanceRan == Exists /\ last_op'.op = "advance"

\* C22 as stated: every advance call runs exactly one stage function.
C22_ExactlyOneStage ==
    [][AdvanceRan => Len(last_op'.runs) = 1]_vars

\* C22 amended: advance dispatches on the state at entry alone and runs at
\* most one stage function, so it charges at most one amount: the stage of
\* that state when the state has one, and no stage at all in PAUSED,
\* PREVIEW_READY, COMPLETED and FAILED.
C22_AtMostOneStage ==
    [][AdvanceRan =>
        /\ Len(last_op'.runs) <= 1
        /\ (StageFor(project.state) = None) = (last_op'.runs = <<>>)
        /\ \A i \in DOMAIN last_op'.runs : last_op'.runs[i].stage = StageFor(project.state)
        /\ project'.cost_usd - project.cost_usd
              \in {0} \cup {StageCost[s] : s \in {StageFor(project.state)} \ {None}}]_vars

\* advance found the script in review, ran the storyboard stage and nothing
\* else, and charged it.
C22_Witness ==
    /\ last_op.op = "advance"
    /\ Len(last_op.runs) = 1 /\ last_op.runs[1].stage = "storyboard"
    /\ project.state = "storyboard_ready"
    /\ project.cost_usd = StageCost.brief + StageCost.script + StageCost.storyboard

\* the project left `state` in this step for a state of the pipeline (being
\* paused there does not count as leaving)
LeftState(state) ==
    /\ Exists /\ project.state = state
    /\ project'.state \notin {state, "paused"}

\* C23: the edges out of SCRIPT_REVIEW and PREVIEW_READY are manual: advance
\* leaves a project that is in SCRIPT_REVIEW or PREVIEW_READY in that state,
\* and the project leaves SCRIPT_REVIEW only by approve_script and
\* PREVIEW_READY only by approve_preview.
C23_ManualEdges ==
    [][/\ (AdvanceRan /\ project.state \in {"script_review", "preview_ready"})
            => project'.state = project.state
       /\ LeftState("script_review") => last_op'.op = "approve_script"
       /\ LeftState("preview_ready") => last_op'.op = "approve_preview"]_vars

ApproveScriptRan == Exists /\ last_op'.op = "approve_script"

\* C24: approve_script on a project that is not in SCRIPT_REVIEW raises the
\* invalid-state error and leaves the project as it was; on a project in
\* SCRIPT_REVIEW it runs the storyboard stage, once, and a call that returns
\* returns the project in STORYBOARD_READY or in PAUSED.
C24_ApproveScript ==
    [][ApproveScriptRan =>
        IF project.state # "script_review"
        THEN /\ last_op'.raised = "ValueError"
             /\ last_op'.runs = <<>>
             /\ project' = project
        ELSE /\ Len(last_op'.runs) = 1
             /\ last_op'.runs[1].stage = "storyboard"
             /\ last_op'.raised # "ValueError"
             /\ last_op'.raised = None
                    => project'.state \in {"storyboard_ready", "paused"}]_vars

\* approve_script was accepted, its storyboard stage tripped the guardrail
\* and the call returned the project paused.
C24_Witness ==
    /\ last_op.op = "approve_script" /\ last_op.raised = None
    /\ Len(last_op.runs) = 1 /\ last_op.runs[1].paused
    /\ project.state = "paused"
    /\ project.storyboard > 0

\* the operations of CreativeOrchestrator that act on an existing project
OrchestratorOps == {"advance", "approve_script", "approve_preview", "regenerate_storyboard"}

Terminal == {"completed", "failed"}

\* C25: COMPLETED and FAILED are terminal: a project that is COMPLETED or
\* FAILED keeps that state through every orchestrator operation, and the cost
\* guardrail does not change the state of a project that a stage has just
\* set to COMPLETED or FAILED.
C25_TerminalStates ==
    [][/\ (Exists /\ project.state \in Terminal /\ last_op'.op \in OrchestratorOps)
            => project'.state = project.state
       /\ \A i \in DOMAIN last_op'.runs :
            last_op'.runs[i].at_guard \in Terminal => ~last_op'.runs[i].paused]_vars

\* the stage runs of the last handler call that raised
RaisedIn(op) == {i \in DOMAIN op.runs : op.runs[i].raised # None}

\* C26: when a stage function raises inside advance, advance emits the
\* creative_workflow_error event and raises the same exception to its caller,
\* and the project is not set to FAILED.
C26_StageErrorPropagates ==
    (last_op.op = "advance" /\ RaisedIn(last_op) # {})
    => /\ \E k \in DOMAIN last_op.emitted : last_op.emitted[k] = "creative_workflow_error"
       /\ \A i \in RaisedIn(last_op) : last_op.raised = last_op.runs[i].raised
       /\ project.state # "failed"

\* advance ran the shots stage on a project without panels: the stage raised
\* ValueError, and so did advance, after the event.
C26_Witness ==
    /\ last_op.op = "advance" /\ last_op.raised = "ValueError"
    /\ Len(last_op.runs) = 1 /\ last_op.runs[1].stage = "shots"
    /\ last_op.runs[1].raised = "ValueError"
    /\ last_op.emitted = <<"creative_workflow_error">>
    /\ project.state = "storyboard_ready"

\* create_project returned
Created == last_op.op = "create_project" /\ last_op.raised = None

TrippedIn(op) == {i \in DOMAIN op.runs : op.runs[i].paused}

\* C27: create_project runs the brief stage and then the script stage, each
\* at most once and in that order; when neither trips the guardrail it
\* returns the project in SCRIPT_REVIEW with summary and script set, both
\* stages having run; when a stage trips it, that stage is the last one run
\* and the project is returned PAUSED; with a budget of 0.05 the script stage
\* trips it and cost_usd is 0.02 + 0.05.
C27_CreateProject ==
    Created =>
        /\ Len(last_op.runs) \in {1, 2}
        /\ last_op.runs[1].stage = "brief"
        /\ Len(last_op.runs) = 2 => last_op.runs[2].stage = "script"
        /\ IF TrippedIn(last_op) = {}
           THEN /\ Len(last_op.runs) = 2
                /\ project.state = "script_review"
                /\ project.summary # None /\ project.script # None
           ELSE /\ TrippedIn(last_op) = {Len(last_op.runs)}
                /\ project.state = "paused"
        /\ (project.budget_limit_usd = 5 /\ project.auto_pause_enabled)
              => /\ TrippedIn(last_op) = {2}
                 /\ project.cost_usd = StageCost.brief + StageCost.script

\* create_project with a budget of 0.05: the brief stage passed, the script
\* stage tripped the guardrail, and the project came back paused at 0.07.
C27_Witness ==
    /\ Created
    /\ project.budget_limit_usd = 5
    /\ last_op.runs[2].paused
    /\ project.state = "paused" /\ project.pre_pause_state = "script_pending"
    /\ project.cost_usd = 7

\* C28: two advance calls for the same project that were in flight together
\* never both execute and charge the same stage.
C28_NoInterleaving ==
    \A j, k \in Calls :
        (j # k /\ calls[j].overlapped /\ calls[k].overlapped /\ calls[j].charged # None)
        => calls[j].charged # calls[k].charged

\* C29: whatever the order in which the panel tasks complete, the storyboard
\* stored by a finished stage holds one panel per scene, in ascending
\* scene_number order 1..N.
C29_PanelOrdering ==
    panel_run.pc = "stored"
    => /\ Len(panel_run.storyboard) = Len(panel_run.results)
       /\ \A i \in DOMAIN panel_run.storyboard : panel_run.storyboard[i].scene_number = i
       /\ \A i, j \in DOMAIN panel_run.storyboard :
             i < j => panel_run.storyboard[i].scene_number
                        < panel_run.storyboard[j].scene_number

\* Three panels whose tasks completed last-first were stored in scene order.
C29_Witness ==
    /\ panel_run.pc = "stored"
    /\ panel_run.order = <<3, 2, 1>>
    /\ panel_run.storyboard
          = <<[scene_number |-> 1], [scene_number |-> 2], [scene_number |-> 3]>>

\* C30: an execute that ends with an exception ends with ToolExecutionError,
\* both when the tool name is unknown and when the tool's run method failed.
C30_SurfacesToolExecutionError ==
    LET last == tool_runtime.last IN
    /\ (last.name # None /\ ~last.known) => last.exc = "ToolExecutionError"
    /\ last.run_raised # None => last.exc = "ToolExecutionError"

(***************************************************************************)
(* Claims about the audit trail, re-arming, frames and the shared services *)
(***************************************************************************)

\* C31: the anomaly history only grows at its end: every step leaves the
\* records already stored where they were, unchanged.
C31_AnomaliesAppendOnly ==
    [][/\ Len(cost_monitor'.anomalies) >= Len(cost_monitor.anomalies)
       /\ SubSeq(cost_monitor'.anomalies, 1, Len(cost_monitor.anomalies))
            = cost_monitor.anomalies]_vars

\* C32: the advance that follows the resume of a guardrail pause is guarded
\* again: when one of its stages recorded cost and left cost_usd at or above
\* budget_limit_usd with auto-pause enabled, that stage paused the project.
C32_RearmedAfterResume ==
    (/\ resume_watch.phase = "advanced"
     /\ \E i \in DOMAIN last_op.runs : last_op.runs[i].at_guard # None
     /\ project.auto_pause_enabled
     /\ project.cost_usd >= project.budget_limit_usd)
    => /\ TrippedIn(last_op) # {}
       /\ project.state = "paused"

\* C33: a step of a stage-running operation on a PAUSED project runs no
\* stage, adds no cost and leaves the project PAUSED; the only operation that
\* takes a project out of PAUSED is resume_project.
C33_PausedBlocksStages ==
    [][project.state = "paused"
       => /\ last_op'.op \in {"advance", "approve_script", "expand_project_brief",
                              "generate_script", "split_script_to_storyboard"}
             => /\ last_op'.runs = <<>>
                /\ project'.cost_usd = project.cost_usd
                /\ project'.state = "paused"
          /\ project'.state # "paused" => last_op'.op = "resume_project"]_vars

\* C34: an advance in which a stage function raised leaves the project held
\* by the repository exactly as it was before the call.
C34_RaisedAdvanceLeavesProject ==
    [][(last_op'.op = "advance" /\ RaisedIn(last_op') # {}) => project' = project]_vars

C36_ThresholdAgainstOwnBudget ==
    (Exists /\ cost_tracker[ProjectId].present)
    => /\ cost_tracker[ProjectId].limit_usd = project.budget_limit_usd
       /\ cost_tracker[ProjectId].spent_usd * 100 >= 95 * project.budget_limit_usd
             => \E i \in DOMAIN telemetry :
                   /\ telemetry[i].name = "cost_threshold"
                   /\ telemetry[i].entity_id = ProjectId

\* C37: once no thread is inside record, the envelope's spent_usd is the sum
\* of all the amounts the threads recorded.
C37_NoLostUpdate ==
    (\A t \in RecordThreads : recorders.calls[t].pc = "idle")
    => cost_tracker[ProjectId].spent_usd = recorders.sum

\* C38: a get_metrics() call, made without a provider name, returns: no task
\* is left suspended inside it.
C38_GetMetricsTerminates ==
    \A k \in ThrottleTasks : throttle.waiting[k] # "get_metrics"

\* C39: for every provider active_requests is at least 0 and at most the
\* concurrent limit of its quota, and an acquire_slot that found the limit
\* reached was refused.
C39_ActiveWithinConcurrent ==
    /\ \A p \in Providers :
          /\ throttle.active_requests[p] >= 0
          /\ throttle.quotas[p].present
                => throttle.active_requests[p] <= throttle.quotas[p].concurrent
          /\ ~throttle.quotas[p].present => throttle.active_requests[p] = 0
    /\ (throttle.last.op = "acquire_slot" /\ throttle.last.result = TRUE)
          => throttle.active_requests[throttle.last.provider] >= 1

\* Both slots of a provider are taken and a third acquire_slot was refused
\* and counted as a rate-limit hit.
C39_Witness ==
    /\ throttle.active_requests["runway"] = throttle.quotas["runway"].concurrent
    /\ throttle.last = [task |-> "c", op |-> "acquire_slot", provider |-> "runway",
                        result |-> FALSE]
    /\ throttle.metrics["runway"].rate_limit_hits = 1
    /\ throttle.metrics["runway"].total_requests = 2

\* C40: a lock_release that deleted the key deleted the lock of the owner
\* who called it, never a lock held by another owner.
C40_ReleaseOnlyOwnLock ==
    (redis_lock.last.op = "lock_release" /\ redis_lock.last.deleted # None)
    => redis_lock.last.deleted = redis_lock.last.owner
====
